---- MODULE Spec2Model ----
(***************************************************************************)
(* A model of the storage and execution engine of src/cpp_core/db_core.h:  *)
(* row codec, 4 KiB pages, system catalog, page cache and page files,      *)
(* primary and composite indexes, MVCC version chains, and the operators   *)
(* of ExecutionEngine.                                                      *)
(*                                                                         *)
(* A std::string is a sequence of byte values (0..255); a page buffer is a *)
(* sequence of PAGE_SIZE bytes.  Offsets in the code are 0-based, so the   *)
(* byte at C++ offset p is data[p + 1] here.                               *)
(***************************************************************************)
EXTENDS Integers, Sequences, FiniteSets, TLC

----------------------------------------------------------------------------
(* Program constants *)

PAGE_SIZE == 4096

\* sizeof(size_t) on the 64-bit build
SIZE_T == 8

\* sizeof(uint32_t), the width of the composite-index file prefixes
U32 == 4

\* ':' separates the parts of a catalog column token
COLON == 58

\* '\x1F' separates the parts of a composite key
UNIT_SEP == 31

\* ',' separates the column indices of the composite-index meta file
COMMA == 44

\* '0', the first decimal digit
DIGIT0 == 48

----------------------------------------------------------------------------
(* Bounds of the model *)

\* operator calls per run
MaxOps == 4

\* the highest page id a table may reach
MaxPages == 3

\* nodes in one MVCC version chain
MaxChain == 3

\* length of the long field value that fills a page with two rows
BigLen == 2000

\* length of the field value that no page can hold
HugeLen == 4100

\* insert_row calls on the page of the page specification
MaxRecords == 3

\* offsets inside the last record of a log at which the log is cut
MaxRecordLen == 24

----------------------------------------------------------------------------
(* Strings *)

Min(a, b) == IF a < b THEN a ELSE b

RECURSIVE Rep(_, _)
\* std::string(n, c)
Rep(c, n) ==
    IF n = 0 THEN <<>>
    ELSE IF n % 2 = 0 THEN LET h == Rep(c, n \div 2) IN h \o h
    ELSE <<c>> \o Rep(c, n - 1)

\* std::string operator< : lexicographic on unsigned bytes, shorter prefix first
StrLess(a, b) ==
    LET n == Min(Len(a), Len(b))
        D == {i \in 1..n : a[i] # b[i]}
    IN IF D = {} THEN Len(a) < Len(b)
       ELSE LET i == CHOOSE x \in D : \A y \in D : x <= y IN a[i] < b[i]

StrLeq(a, b) == a = b \/ StrLess(a, b)

RECURSIVE SortedKeys(_)
\* the keys of a std::map in iteration order (ascending)
SortedKeys(S) ==
    IF S = {} THEN <<>>
    ELSE LET m == CHOOSE x \in S : \A y \in S : StrLeq(x, y)
         IN <<m>> \o SortedKeys(S \ {m})

\* std::string::find(ch, from): 0-based position, or -1 for npos
Find(s, ch, from) ==
    LET H == {i \in (from + 1)..Len(s) : s[i] = ch}
    IN IF from < 0 \/ H = {} THEN -1
       ELSE (CHOOSE x \in H : \A y \in H : x <= y) - 1

\* std::string::substr(pos, n) with 0-based pos; n < 0 stands for npos
Substr(s, pos, n) ==
    LET last == IF n < 0 THEN Len(s) ELSE Min(Len(s), pos + n)
    IN SubSeq(s, pos + 1, last)

RECURSIVE to_string(_)
\* std::to_string of a size_t
to_string(n) ==
    IF n < 10 THEN <<DIGIT0 + n>>
    ELSE to_string(n \div 10) \o <<DIGIT0 + (n % 10)>>

IsDigit(c) == c >= DIGIT0 /\ c <= DIGIT0 + 9

RECURSIVE StoulFrom(_, _, _)
StoulFrom(s, i, acc) ==
    IF i > Len(s) \/ ~IsDigit(s[i]) THEN acc
    ELSE StoulFrom(s, i + 1, acc * 10 + (s[i] - DIGIT0))

\* std::stoul on a string that starts with a digit (the longest digit prefix)
Stoul(s) == StoulFrom(s, 1, 0)

----------------------------------------------------------------------------
(* Fixed-width integers in memory (little endian) *)

\* a value too large for the model's integers: a prefix with a high byte set
TooBig == 256 * 256 * 256

\* the w bytes of n
EncInt(n, w) == [i \in 1..w |-> IF i = 1 THEN n % 256
                                ELSE IF i = 2 THEN (n \div 256) % 256
                                ELSE IF i = 3 THEN (n \div 65536) % 256
                                ELSE 0]

\* memcpy of w bytes at 0-based offset pos into an integer
DecInt(data, pos, w) ==
    IF \E i \in 4..w : data[pos + i] # 0 THEN TooBig
    ELSE data[pos + 1] + 256 * data[pos + 2] + 65536 * data[pos + 3]

----------------------------------------------------------------------------
(* Row *)

\* Row(vals): is_deleted = false
NewRow(vals) == [values |-> vals, is_deleted |-> FALSE]

RECURSIVE SerializeFields(_, _)
SerializeFields(vals, i) ==
    IF i > Len(vals) THEN <<>>
    ELSE EncInt(Len(vals[i]), SIZE_T) \o vals[i] \o SerializeFields(vals, i + 1)

\* Row::serialize
serialize(row) ==
    <<IF row.is_deleted THEN 1 ELSE 0>>
      \o EncInt(Len(row.values), SIZE_T)
      \o SerializeFields(row.values, 1)

\* the outcome of a deserialize that indexes past the end of its buffer
\* (no byte is negative, so no row read from valid bytes equals it)
BadFields == <<(<<-1>>)>>

OutOfRange == [values |-> BadFields, is_deleted |-> FALSE]

RECURSIVE DeserializeFields(_, _, _, _)
\* the loop of Row::deserialize: i fields left, reading at 0-based pos
DeserializeFields(data, pos, left, acc) ==
    IF left = 0 THEN acc
    ELSE IF pos + SIZE_T > Len(data) THEN BadFields
    ELSE LET val_len == DecInt(data, pos, SIZE_T)
         IN IF pos + SIZE_T + val_len > Len(data) THEN BadFields
            ELSE IF acc = BadFields THEN BadFields
            ELSE DeserializeFields(data, pos + SIZE_T + val_len, left - 1,
                     Append(acc, SubSeq(data, pos + SIZE_T + 1, pos + SIZE_T + val_len)))

\* deserialize that never restores the tombstone
DeserializeLive(data) ==
    IF 1 + SIZE_T > Len(data) THEN OutOfRange
    ELSE LET vals == DeserializeFields(data, 1 + SIZE_T, DecInt(data, 1, SIZE_T), <<>>)
         IN IF vals = BadFields THEN OutOfRange
            ELSE [values |-> vals, is_deleted |-> FALSE]

\* Row::deserialize
deserialize(data) ==
    IF 1 + SIZE_T > Len(data) THEN OutOfRange
    ELSE LET vals == DeserializeFields(data, 1 + SIZE_T, DecInt(data, 1, SIZE_T), <<>>)
         IN IF vals = BadFields THEN OutOfRange
            ELSE [values |-> vals, is_deleted |-> data[1] = 1]

----------------------------------------------------------------------------
(* Page *)

ZeroPage == [i \in 1..PAGE_SIZE |-> 0]

\* Page(id): a zeroed buffer, not dirty
NewPage(id) == [page_id |-> id, data |-> ZeroPage, is_dirty |-> FALSE]

RECURSIVE FreePos(_, _)
\* the walk of Page::insert_row over the existing records: the offset where
\* the first zero length prefix is read, or where no prefix fits any more
FreePos(data, pos) ==
    IF pos + SIZE_T <= PAGE_SIZE
    THEN LET existing_row_len == DecInt(data, pos, SIZE_T)
         IN IF existing_row_len = 0 THEN pos
            ELSE FreePos(data, pos + SIZE_T + existing_row_len)
    ELSE pos

\* the bytes [pos, pos + Len(bytes)) of the buffer overwritten
WriteAt(data, pos, bytes) ==
    SubSeq(data, 1, pos) \o bytes \o SubSeq(data, pos + Len(bytes) + 1, Len(data))

\* insert_row rejecting a record that ends exactly at the end of the page
\* (pos + row_len >= PAGE_SIZE)
InsertRowStrict(page, row) ==
    LET row_bin == serialize(row)
        row_len == Len(row_bin) + SIZE_T
        pos     == FreePos(page.data, 0)
    IN IF pos + row_len >= PAGE_SIZE
       THEN [ok |-> FALSE, page |-> page]
       ELSE [ok |-> TRUE,
             page |-> [page EXCEPT
                 !.data = WriteAt(page.data, pos, EncInt(row_len, SIZE_T) \o row_bin),
                 !.is_dirty = TRUE]]

\* Page::insert_row: [ok, page]
insert_row(page, row) ==
    LET row_bin == serialize(row)
        row_len == Len(row_bin) + SIZE_T
        pos     == FreePos(page.data, 0)
    IN IF pos + row_len > PAGE_SIZE
       THEN [ok |-> FALSE, page |-> page]
       ELSE [ok |-> TRUE,
             page |-> [page EXCEPT
                 !.data = WriteAt(page.data, pos, EncInt(row_len, SIZE_T) \o row_bin),
                 !.is_dirty = TRUE]]

RECURSIVE AllRows(_, _)
\* the loop of Page::get_rows before its tombstone filter: every record of the
\* page, deserialized.  The copy row_bin takes row_len bytes from pos, up to
\* SIZE_T bytes more than the record holds; bytes it takes from beyond the
\* buffer are indeterminate, and deserialize never inspects them, so the copy
\* is cut at the end of the buffer here.
AllRows(data, pos) ==
    IF pos + SIZE_T <= PAGE_SIZE
    THEN LET row_len == DecInt(data, pos, SIZE_T)
         IN IF row_len = 0 THEN <<>>
            ELSE LET row_bin == SubSeq(data, pos + SIZE_T + 1,
                                       Min(pos + SIZE_T + row_len, PAGE_SIZE))
                 IN <<deserialize(row_bin)>> \o AllRows(data, pos + SIZE_T + row_len)
    ELSE <<>>

RECURSIVE CopyRanges(_, _)
\* the byte ranges Page::get_rows reads from the buffer: for every record the
\* length prefix [pos, pos + SIZE_T) and the row_len bytes the copy row_bin
\* takes, [pos + SIZE_T, pos + SIZE_T + row_len); ranges as <<first, end>>
CopyRanges(data, pos) ==
    IF pos + SIZE_T <= PAGE_SIZE
    THEN LET row_len == DecInt(data, pos, SIZE_T)
         IN {<<pos, pos + SIZE_T>>} \cup
            (IF row_len = 0 THEN {}
             ELSE {<<pos + SIZE_T, pos + SIZE_T + row_len>>}
                    \cup CopyRanges(data, pos + SIZE_T + row_len))
    ELSE {}

\* Page::get_rows: fresh Row objects for the records whose tombstone is clear
get_rows(page) == SelectSeq(AllRows(page.data, 0), LAMBDA r : ~r.is_deleted)

----------------------------------------------------------------------------
(* Finite maps (std::map) as functions *)

\* the element of a one-element set
Only(S) == CHOOSE x \in S : TRUE

Put(f, k, v) == [x \in (DOMAIN f) \cup {k} |-> IF x = k THEN v ELSE f[x]]

Del(f, k) == [x \in (DOMAIN f) \ {k} |-> f[x]]

EmptyMap == [x \in {} |-> 0]

----------------------------------------------------------------------------
(* Page files *)

\* "sys_catalog", the table name of the catalog page
SYS_CATALOG == <<115, 121, 115, 95, 99, 97, 116, 97, 108, 111, 103>>

\* Page::write_to_disk: the file <table>_page_<id>.bin takes the whole buffer
\* when the page is dirty.  [page, files]
write_to_disk(page, table_name, files) ==
    IF ~page.is_dirty THEN [page |-> page, files |-> files]
    ELSE [page  |-> [page EXCEPT !.is_dirty = FALSE],
          files |-> Put(files, <<table_name, page.page_id>>, page.data)]

\* Page::load_from_disk: [ok, page]
load_from_disk(page, table_name, files) ==
    IF <<table_name, page.page_id>> \notin DOMAIN files
    THEN [ok |-> FALSE, page |-> page]
    ELSE [ok |-> TRUE,
          page |-> [page EXCEPT !.data = files[<<table_name, page.page_id>>],
                                !.is_dirty = FALSE]]

----------------------------------------------------------------------------
(* SystemCatalog *)

STR_INT == <<73, 78, 84>>

STR_STRING == <<83, 84, 82, 73, 78, 71>>

STR_DOUBLE == <<68, 79, 85, 66, 76, 69>>

\* Column(n, t, pk)
Column(n, t, pk) == [name |-> n, type |-> t, is_primary_key |-> pk]

\* TableSchema(n, cols): column_count is the size of the column list
TableSchema(n, cols) == [name |-> n, columns |-> cols, column_count |-> Len(cols)]

\* "name:TYPE:pk", the token register_table writes for a column
ColInfo(col) ==
    col.name \o <<COLON>>
      \o (IF col.type = "INT" THEN STR_INT
          ELSE IF col.type = "STRING" THEN STR_STRING ELSE STR_DOUBLE)
      \o <<COLON>> \o (IF col.is_primary_key THEN <<DIGIT0 + 1>> ELSE <<DIGIT0>>)

\* the values of the catalog row of a schema
CatalogRowVals(schema) ==
    <<schema.name, to_string(schema.column_count)>>
      \o [i \in 1..Len(schema.columns) |-> ColInfo(schema.columns[i])]

RECURSIVE ParseColumns(_, _, _, _)
\* the column loop of the SystemCatalog constructor over vals[2 + i], i < col_count;
\* a token without two ':' is skipped.  vals[2 + i] past the end of vals is an
\* out-of-range read; the rows register_table writes carry col_count tokens.
ParseColumns(vals, i, col_count, columns) ==
    IF i >= col_count \/ 2 + i + 1 > Len(vals) THEN columns
    ELSE LET col_info == vals[2 + i + 1]
             sep1 == Find(col_info, COLON, 0)
             sep2 == Find(col_info, COLON, sep1 + 1)
         IN IF sep1 = -1 \/ sep2 = -1
            THEN ParseColumns(vals, i + 1, col_count, columns)
            ELSE LET col_name == Substr(col_info, 0, sep1)
                     col_type_str == Substr(col_info, sep1 + 1, sep2 - sep1 - 1)
                     is_pk == (Substr(col_info, sep2 + 1, -1) = <<DIGIT0 + 1>>)
                     col_type == IF col_type_str = STR_STRING THEN "STRING"
                                 ELSE IF col_type_str = STR_DOUBLE THEN "DOUBLE"
                                 ELSE "INT"
                 IN ParseColumns(vals, i + 1, col_count,
                                 Append(columns, Column(col_name, col_type, is_pk)))

RECURSIVE LoadSchemas(_, _, _)
\* the row loop of the SystemCatalog constructor
LoadSchemas(rows, i, cache) ==
    IF i > Len(rows) THEN cache
    ELSE LET vals == rows[i].values
         IN IF Len(vals) < 3 THEN LoadSchemas(rows, i + 1, cache)
            ELSE LET table_name == vals[1]
                     col_count == Stoul(vals[2])
                     columns == ParseColumns(vals, 0, col_count, <<>>)
                 IN LoadSchemas(rows, i + 1,
                                Put(cache, table_name, TableSchema(table_name, columns)))

\* SystemCatalog::SystemCatalog: [schema_cache, catalog_page]
SystemCatalog(files) ==
    LET catalog_page == load_from_disk(NewPage(0), SYS_CATALOG, files).page
    IN [schema_cache |-> LoadSchemas(get_rows(catalog_page), 1, EmptyMap),
        catalog_page |-> catalog_page]

\* SystemCatalog::register_table: [ok, schema_cache, catalog_page, files]
register_table(schema_cache, catalog_page, files, schema) ==
    IF schema.name \in DOMAIN schema_cache
    THEN [ok |-> FALSE, schema_cache |-> schema_cache,
          catalog_page |-> catalog_page, files |-> files]
    ELSE LET cached == Put(schema_cache, schema.name, schema)
             ins == insert_row(catalog_page, NewRow(CatalogRowVals(schema)))
         IN IF ~ins.ok
            THEN [ok |-> FALSE, schema_cache |-> cached,
                  catalog_page |-> catalog_page, files |-> files]
            ELSE LET w == write_to_disk(ins.page, SYS_CATALOG, files)
                 IN [ok |-> TRUE, schema_cache |-> cached,
                     catalog_page |-> w.page, files |-> w.files]

\* SystemCatalog::get_table_names
get_table_names(schema_cache) == SortedKeys(DOMAIN schema_cache)

----------------------------------------------------------------------------
(* StorageEngine.  An engine value e is the record of its members:          *)
(*   schema_cache, catalog_page    the SystemCatalog                        *)
(*   page_cache                    (table, page id) -> Page                 *)
(*   table_max_page_id             table -> id                              *)
(*   primary_indexes               table -> TableIndex                      *)
(*   composite_indexes             table -> CompositeIndexInfo              *)
(* together with the files of the working directory:                        *)
(*   page_files                    (table, page id) -> 4096 bytes           *)
(*   cidx_files                    (table, "meta" | "bin" | "wal") -> bytes *)

RECURSIVE ProbePages(_, _, _)
\* the probe loop for <table>_page_<k>.bin, k = 1, 2, ... up to the first gap
ProbePages(files, table_name, max_id) ==
    IF <<table_name, max_id + 1>> \in DOMAIN files
    THEN ProbePages(files, table_name, max_id + 1)
    ELSE max_id

\* StorageEngine::get_page: [page (a cache key, or "nullptr"), e]
get_page(e, table_name, page_id) ==
    LET key == <<table_name, page_id>>
    IN IF key \in DOMAIN e.page_cache THEN [found |-> TRUE, e |-> e]
       ELSE LET ld == load_from_disk(NewPage(page_id), table_name, e.page_files)
            IN IF ld.ok
               THEN [found |-> TRUE,
                     e |-> [e EXCEPT !.page_cache = Put(e.page_cache, key, ld.page)]]
               ELSE [found |-> FALSE, e |-> e]

\* StorageEngine::create_new_page: [page_id, e]
create_new_page(e, table_name) ==
    LET cur == IF table_name \in DOMAIN e.table_max_page_id
               THEN e.table_max_page_id[table_name] ELSE 0
        new_page_id == cur + 1
    IN [page_id |-> new_page_id,
        e |-> [e EXCEPT
            !.page_cache = Put(e.page_cache, <<table_name, new_page_id>>, NewPage(new_page_id)),
            !.table_max_page_id = Put(e.table_max_page_id, table_name, new_page_id)]]

\* StorageEngine::write_page on a cached page
write_page(e, table_name, page_id) ==
    LET key == <<table_name, page_id>>
        w == write_to_disk(e.page_cache[key], table_name, e.page_files)
    IN [e EXCEPT !.page_cache = Put(e.page_cache, key, w.page),
                 !.page_files = w.files]

\* StorageEngine::get_table_max_page_id: [max_id, e]
get_table_max_page_id(e, table_name) ==
    IF table_name \in DOMAIN e.table_max_page_id
    THEN [max_id |-> e.table_max_page_id[table_name], e |-> e]
    ELSE LET max_id == ProbePages(e.page_files, table_name, 0)
         IN [max_id |-> max_id,
             e |-> [e EXCEPT !.table_max_page_id =
                                 Put(e.table_max_page_id, table_name, max_id)]]

\* the first primary-key column of a schema (0-based), or -1
FirstPk(columns) ==
    LET P == {i \in 1..Len(columns) : columns[i].is_primary_key}
    IN IF P = {} THEN -1 ELSE (CHOOSE i \in P : \A j \in P : i <= j) - 1

\* StorageEngine::init_primary_index
init_primary_index(e, schema) ==
    LET pk == FirstPk(schema.columns)
        idx == [enabled |-> pk >= 0,
                pk_index |-> IF pk >= 0 THEN pk ELSE 0,
                pk_to_row_values |-> EmptyMap]
    IN [e EXCEPT !.primary_indexes = Put(e.primary_indexes, schema.name, idx),
                 !.composite_indexes = Del(e.composite_indexes, schema.name)]

----------------------------------------------------------------------------
(* Composite index: keys and files *)

RECURSIVE CompositeKey(_, _, _)
\* the key loop of insert_index_row and of rebuild_and_save_composite_index:
\* the values of the key columns joined by 0x1F; cleared (empty) as soon as a
\* column index is out of range
CompositeKey(indices, row_values, i) ==
    IF i > Len(indices) THEN <<>>
    ELSE IF indices[i] >= Len(row_values) THEN <<-1>>
    ELSE LET rest == CompositeKey(indices, row_values, i + 1)
         IN IF rest = <<-1>> THEN <<-1>>
            ELSE (IF i > 1 THEN <<UNIT_SEP>> ELSE <<>>)
                   \o row_values[indices[i] + 1] \o rest

\* the key, with the cleared key as the empty string
ckey_of(indices, row_values) ==
    LET k == CompositeKey(indices, row_values, 1)
    IN IF k = <<-1>> THEN <<>> ELSE k

RECURSIVE CidxFields(_, _)
CidxFields(vals, i) ==
    IF i > Len(vals) THEN <<>>
    ELSE EncInt(Len(vals[i]), U32) \o vals[i] \o CidxFields(vals, i + 1)

\* one record of the snapshot or of the WAL:
\* [u32 klen][key][u32 cnt] { [u32 len][bytes] }
CidxRecord(key, vals) ==
    EncInt(Len(key), U32) \o key \o EncInt(Len(vals), U32) \o CidxFields(vals, 1)

RECURSIVE SnapshotBytes(_, _, _)
\* StorageEngine::save_cidx_snapshot: the records of the map in key order
SnapshotBytes(m, keys, i) ==
    IF i > Len(keys) THEN <<>>
    ELSE CidxRecord(keys[i], m[keys[i]]) \o SnapshotBytes(m, keys, i + 1)

\* StorageEngine::append_cidx_wal (std::ios::app creates the file)
append_cidx_wal(cidx_files, table_name, key, vals) ==
    LET old == IF <<table_name, "wal">> \in DOMAIN cidx_files
               THEN cidx_files[<<table_name, "wal">>] ELSE <<>>
    IN Put(cidx_files, <<table_name, "wal">>, old \o CidxRecord(key, vals))

RECURSIVE ReadCidxFieldsKeepPartial(_, _, _, _)
\* the field loop keeping the fields already read when a read fails
ReadCidxFieldsKeepPartial(bytes, pos, left, vals) ==
    IF left = 0 THEN [ok |-> TRUE, vals |-> vals, pos |-> pos]
    ELSE IF pos + U32 > Len(bytes) THEN [ok |-> FALSE, vals |-> vals, pos |-> pos]
    ELSE LET sl == DecInt(bytes, pos, U32)
         IN IF pos + U32 + sl > Len(bytes)
            THEN [ok |-> FALSE, vals |-> vals, pos |-> pos]
            ELSE ReadCidxFieldsKeepPartial(bytes, pos + U32 + sl, left - 1,
                     Append(vals, SubSeq(bytes, pos + U32 + 1, pos + U32 + sl)))

RECURSIVE ReadCidxFields(_, _, _, _)
\* the field loop of a record read: [ok, vals, pos]; a failed read clears vals
\* and leaves the stream failed
ReadCidxFields(bytes, pos, left, vals) ==
    IF left = 0 THEN [ok |-> TRUE, vals |-> vals, pos |-> pos]
    ELSE IF pos + U32 > Len(bytes) THEN [ok |-> FALSE, vals |-> <<>>, pos |-> pos]
    ELSE LET sl == DecInt(bytes, pos, U32)
         IN IF pos + U32 + sl > Len(bytes)
            THEN [ok |-> FALSE, vals |-> <<>>, pos |-> pos]
            ELSE ReadCidxFields(bytes, pos + U32 + sl, left - 1,
                     Append(vals, SubSeq(bytes, pos + U32 + 1, pos + U32 + sl)))

RECURSIVE ReadCidxRecords(_, _, _)
\* the record loop of load_composite_index_if_exists (snapshot) and of
\* replay_cidx_wal: every complete record is an upsert; the loop ends at the
\* first read that fails
ReadCidxRecords(bytes, pos, m) ==
    IF pos + U32 > Len(bytes) THEN m
    ELSE LET klen == DecInt(bytes, pos, U32)
         IN IF pos + U32 + klen > Len(bytes) THEN m
            ELSE IF pos + U32 + klen + U32 > Len(bytes) THEN m
            ELSE LET key == SubSeq(bytes, pos + U32 + 1, pos + U32 + klen)
                     cnt == DecInt(bytes, pos + U32 + klen, U32)
                     f == ReadCidxFields(bytes, pos + U32 + klen + U32, cnt, <<>>)
                     m2 == IF f.vals # <<>> THEN Put(m, key, f.vals) ELSE m
                 IN IF f.ok THEN ReadCidxRecords(bytes, f.pos, m2) ELSE m2

----------------------------------------------------------------------------
(* Primary and composite index maintenance *)

\* The range loop shared by index_range_row_values and
\* composite_index_range_row_values runs from lower_bound(min_key) while the
\* key is <= max_key, in key order.

\* the loop condition written iter->first < max_key
RangeLoopCondExclusive(key, max_key) == StrLess(key, max_key)

\* iter->first <= max_key
RangeLoopCond(key, max_key) == StrLeq(key, max_key)

RECURSIVE RangeLoop(_, _, _, _)
RangeLoop(m, keys, i, max_key) ==
    IF i > Len(keys) \/ ~RangeLoopCond(keys[i], max_key) THEN <<>>
    ELSE <<m[keys[i]]>> \o RangeLoop(m, keys, i + 1, max_key)

\* std::map::lower_bound: the position of the first key not less than min_key
LowerBound(keys, min_key) ==
    LET G == {i \in 1..Len(keys) : ~StrLess(keys[i], min_key)}
    IN IF G = {} THEN Len(keys) + 1 ELSE CHOOSE i \in G : \A j \in G : i <= j

MapRange(m, min_key, max_key) ==
    LET keys == SortedKeys(DOMAIN m)
    IN RangeLoop(m, keys, LowerBound(keys, min_key), max_key)

\* the key under which insert_index_row stores a row in the primary index
PkKeyOf(idx, row_values) == row_values[idx.pk_index + 1]

\* StorageEngine::insert_index_row
insert_index_row(e, table_name, row_values) ==
    IF table_name \notin DOMAIN e.primary_indexes THEN e
    ELSE LET idx == e.primary_indexes[table_name]
         IN IF ~idx.enabled \/ idx.pk_index >= Len(row_values) THEN e
            ELSE LET key == PkKeyOf(idx, row_values)
                     e1 == [e EXCEPT !.primary_indexes[table_name].pk_to_row_values =
                                         Put(idx.pk_to_row_values, key, row_values)]
                 IN IF table_name \in DOMAIN e.composite_indexes
                       /\ e.composite_indexes[table_name].enabled
                       /\ e.composite_indexes[table_name].key_indices # <<>>
                    THEN LET info == e.composite_indexes[table_name]
                             ckey == ckey_of(info.key_indices, row_values)
                         IN IF ckey # <<>>
                            THEN [e1 EXCEPT
                                    !.composite_indexes[table_name].key_to_row_values =
                                        Put(info.key_to_row_values, ckey, row_values),
                                    !.cidx_files =
                                        append_cidx_wal(e.cidx_files, table_name, ckey, row_values)]
                            ELSE e1
                    ELSE e1

\* StorageEngine::index_get_row_values: <<row values>>, or <<>> for nullopt
index_get_row_values(e, table_name, key) ==
    IF table_name \notin DOMAIN e.primary_indexes
       \/ ~e.primary_indexes[table_name].enabled THEN <<>>
    ELSE LET m == e.primary_indexes[table_name].pk_to_row_values
         IN IF key \in DOMAIN m THEN <<m[key]>> ELSE <<>>

\* StorageEngine::get_index_size
get_index_size(e, table_name) ==
    IF table_name \notin DOMAIN e.primary_indexes
       \/ ~e.primary_indexes[table_name].enabled THEN 0
    ELSE Cardinality(DOMAIN e.primary_indexes[table_name].pk_to_row_values)

\* StorageEngine::index_range_row_values
index_range_row_values(e, table_name, min_key, max_key) ==
    IF table_name \notin DOMAIN e.primary_indexes
       \/ ~e.primary_indexes[table_name].enabled THEN <<>>
    ELSE MapRange(e.primary_indexes[table_name].pk_to_row_values, min_key, max_key)

\* StorageEngine::composite_index_range_row_values
composite_index_range_row_values(e, table_name, min_key, max_key) ==
    IF table_name \notin DOMAIN e.composite_indexes
       \/ ~e.composite_indexes[table_name].enabled THEN <<>>
    ELSE MapRange(e.composite_indexes[table_name].key_to_row_values, min_key, max_key)

\* StorageEngine::get_composite_index_columns
get_composite_index_columns(e, table_name) ==
    IF table_name \notin DOMAIN e.composite_indexes
       \/ ~e.composite_indexes[table_name].enabled THEN <<>>
    ELSE e.composite_indexes[table_name].key_indices

RECURSIVE BackFill(_, _, _, _, _)

\* the back-fill loop of rebuild_and_save_composite_index over the primary
\* index in key order
BackFill(pm, keys, i, indices, m) ==
    IF i > Len(keys) THEN m
    ELSE LET row_values == pm[keys[i]]
             ckey == ckey_of(indices, row_values)
         IN BackFill(pm, keys, i + 1, indices,
                     IF ckey # <<>> THEN Put(m, ckey, row_values) ELSE m)

RECURSIVE MetaText(_, _)
\* the text of the meta file: the indices joined by ','
MetaText(indices, i) ==
    IF i > Len(indices) THEN <<>>
    ELSE (IF i > 1 THEN <<COMMA>> ELSE <<>>) \o to_string(indices[i])
           \o MetaText(indices, i + 1)

\* StorageEngine::rebuild_and_save_composite_index
rebuild_and_save_composite_index(e, table_name) ==
    IF table_name \notin DOMAIN e.composite_indexes THEN e
    ELSE LET info == e.composite_indexes[table_name]
             filled ==
                 IF table_name \in DOMAIN e.primary_indexes
                    /\ e.primary_indexes[table_name].enabled
                 THEN LET pm == e.primary_indexes[table_name].pk_to_row_values
                      IN BackFill(pm, SortedKeys(DOMAIN pm), 1, info.key_indices, EmptyMap)
                 ELSE EmptyMap
             snap == SnapshotBytes(filled, SortedKeys(DOMAIN filled), 1)
             f1 == Put(e.cidx_files, <<table_name, "bin">>, snap)
             f2 == Del(f1, <<table_name, "wal">>)
             f3 == Put(f2, <<table_name, "meta">>, MetaText(info.key_indices, 1))
         IN [e EXCEPT !.composite_indexes[table_name].key_to_row_values = filled,
                      !.cidx_files = f3]

\* StorageEngine::enable_composite_index: [ok, e]
enable_composite_index(e, table_name, indices) ==
    IF indices = <<>> THEN [ok |-> FALSE, e |-> e]
    ELSE LET info == [enabled |-> TRUE, key_indices |-> indices,
                      key_to_row_values |-> EmptyMap]
             e1 == [e EXCEPT !.composite_indexes = Put(e.composite_indexes, table_name, info)]
         IN [ok |-> TRUE, e |-> rebuild_and_save_composite_index(e1, table_name)]

\* StorageEngine::drop_composite_index: [ok, e]
drop_composite_index(e, table_name) ==
    IF table_name \notin DOMAIN e.composite_indexes THEN [ok |-> FALSE, e |-> e]
    ELSE [ok |-> TRUE,
          e |-> [e EXCEPT
              !.composite_indexes = Del(e.composite_indexes, table_name),
              !.cidx_files = Del(Del(Del(e.cidx_files, <<table_name, "meta">>),
                                     <<table_name, "bin">>), <<table_name, "wal">>)]]

RECURSIVE ParseMeta(_, _, _)
\* the token loop over the first line of the meta file
ParseMeta(line, pos, indices) ==
    IF pos >= Len(line) THEN indices
    ELSE LET comma == Find(line, COMMA, pos)
             tok == IF comma = -1 THEN Substr(line, pos, -1)
                    ELSE Substr(line, pos, comma - pos)
             next == IF tok # <<>> THEN Append(indices, Stoul(tok)) ELSE indices
         IN IF comma = -1 THEN next ELSE ParseMeta(line, comma + 1, next)

\* load_composite_index_if_exists without the call of replay_cidx_wal
LoadSnapshotOnly(e, table_name) ==
    IF <<table_name, "meta">> \notin DOMAIN e.cidx_files THEN e
    ELSE LET indices == ParseMeta(e.cidx_files[<<table_name, "meta">>], 0, <<>>)
             snap == IF <<table_name, "bin">> \in DOMAIN e.cidx_files
                     THEN ReadCidxRecords(e.cidx_files[<<table_name, "bin">>], 0, EmptyMap)
                     ELSE EmptyMap
         IN [e EXCEPT !.composite_indexes =
                Put(e.composite_indexes, table_name,
                    [enabled |-> TRUE, key_indices |-> indices, key_to_row_values |-> snap])]

\* StorageEngine::load_composite_index_if_exists
load_composite_index_if_exists(e, table_name) ==
    IF <<table_name, "meta">> \notin DOMAIN e.cidx_files THEN e
    ELSE LET indices == ParseMeta(e.cidx_files[<<table_name, "meta">>], 0, <<>>)
             snap == IF <<table_name, "bin">> \in DOMAIN e.cidx_files
                     THEN ReadCidxRecords(e.cidx_files[<<table_name, "bin">>], 0, EmptyMap)
                     ELSE EmptyMap
             m == IF <<table_name, "wal">> \in DOMAIN e.cidx_files
                  THEN ReadCidxRecords(e.cidx_files[<<table_name, "wal">>], 0, snap)
                  ELSE snap
         IN [e EXCEPT !.composite_indexes =
                Put(e.composite_indexes, table_name,
                    [enabled |-> TRUE, key_indices |-> indices, key_to_row_values |-> m])]

RECURSIVE InitTables(_, _, _)
\* the two table loops of the StorageEngine constructor
InitTables(e, names, i) ==
    IF i > Len(names) THEN e
    ELSE LET t == names[i]
             e1 == [e EXCEPT !.table_max_page_id =
                        Put(e.table_max_page_id, t, ProbePages(e.page_files, t, 0))]
             e2 == init_primary_index(e1, e1.schema_cache[t])
         IN InitTables(load_composite_index_if_exists(e2, t), names, i + 1)

\* StorageEngine::StorageEngine over the files of the working directory
StorageEngine(page_files, cidx_files) ==
    LET cat == SystemCatalog(page_files)
        e0 == [schema_cache |-> cat.schema_cache, catalog_page |-> cat.catalog_page,
               page_cache |-> EmptyMap, table_max_page_id |-> EmptyMap,
               primary_indexes |-> EmptyMap, composite_indexes |-> EmptyMap,
               page_files |-> page_files, cidx_files |-> cidx_files]
    IN InitTables(e0, get_table_names(cat.schema_cache), 1)

----------------------------------------------------------------------------
(* DROP TABLE in the catalog and in the storage engine *)

RECURSIVE ReinsertSchemas(_, _, _, _)
\* the rebuild loop of unregister_table: [ok, page]
ReinsertSchemas(cache, names, i, page) ==
    IF i > Len(names) THEN [ok |-> TRUE, page |-> page]
    ELSE LET ins == insert_row(page, NewRow(CatalogRowVals(cache[names[i]])))
         IN IF ~ins.ok THEN [ok |-> FALSE, page |-> page]
            ELSE ReinsertSchemas(cache, names, i + 1, ins.page)

\* SystemCatalog::unregister_table: [ok, schema_cache, catalog_page, files]
unregister_table(schema_cache, catalog_page, files, table_name) ==
    IF table_name \notin DOMAIN schema_cache
    THEN [ok |-> FALSE, schema_cache |-> schema_cache,
          catalog_page |-> catalog_page, files |-> files]
    ELSE LET cache == Del(schema_cache, table_name)
             re == ReinsertSchemas(cache, SortedKeys(DOMAIN cache), 1, NewPage(0))
         IN IF ~re.ok
            THEN [ok |-> FALSE, schema_cache |-> cache,
                  catalog_page |-> re.page, files |-> files]
            ELSE LET w == write_to_disk(re.page, SYS_CATALOG, files)
                 IN [ok |-> TRUE, schema_cache |-> cache,
                     catalog_page |-> w.page, files |-> w.files]

\* drop_table_data with the file loop stopping one page short (page_id <
\* max_page_id)
DropTableDataBelowMax(e, table_name) ==
    LET mine == {k \in DOMAIN e.page_cache : k[1] = table_name}
        max_page_id == IF table_name \in DOMAIN e.table_max_page_id
                       THEN e.table_max_page_id[table_name] ELSE 0
        kept == {k \in DOMAIN e.page_files :
                    ~(k[1] = table_name /\ k[2] >= 1 /\ k[2] < max_page_id)}
    IN [e EXCEPT
          !.page_cache = [k \in (DOMAIN e.page_cache) \ mine |-> e.page_cache[k]],
          !.page_files = [k \in kept |-> e.page_files[k]],
          !.table_max_page_id = Del(e.table_max_page_id, table_name),
          !.primary_indexes = Del(e.primary_indexes, table_name)]

\* StorageEngine::drop_table_data
drop_table_data(e, table_name) ==
    LET mine == {k \in DOMAIN e.page_cache : k[1] = table_name}
        dirty == {k \in mine : e.page_cache[k].is_dirty}
        flushed == [k \in (DOMAIN e.page_files) \cup dirty |->
                       IF k \in dirty THEN e.page_cache[k].data ELSE e.page_files[k]]
        max_page_id == IF table_name \in DOMAIN e.table_max_page_id
                       THEN e.table_max_page_id[table_name] ELSE 0
        kept == {k \in DOMAIN flushed :
                    ~(k[1] = table_name /\ k[2] >= 1 /\ k[2] <= max_page_id)}
    IN [e EXCEPT
          !.page_cache = [k \in (DOMAIN e.page_cache) \ mine |-> e.page_cache[k]],
          !.page_files = [k \in kept |-> flushed[k]],
          !.table_max_page_id = Del(e.table_max_page_id, table_name),
          !.primary_indexes = Del(e.primary_indexes, table_name)]

----------------------------------------------------------------------------
(* ExecutionEngine *)

\* create_table initialising the primary index whatever register_table
\* returned
CreateTableAlwaysInit(e, table_name, columns) ==
    IF table_name = <<>> \/ columns = <<>> THEN [ok |-> FALSE, e |-> e]
    ELSE LET schema == TableSchema(table_name, columns)
             r == register_table(e.schema_cache, e.catalog_page, e.page_files, schema)
             e1 == [e EXCEPT !.schema_cache = r.schema_cache,
                             !.catalog_page = r.catalog_page,
                             !.page_files = r.files]
         IN [ok |-> r.ok, e |-> init_primary_index(e1, schema)]

\* ExecutionEngine::create_table: [ok, e]
create_table(e, table_name, columns) ==
    IF table_name = <<>> \/ columns = <<>> THEN [ok |-> FALSE, e |-> e]
    ELSE LET schema == TableSchema(table_name, columns)
             r == register_table(e.schema_cache, e.catalog_page, e.page_files, schema)
             e1 == [e EXCEPT !.schema_cache = r.schema_cache,
                             !.catalog_page = r.catalog_page,
                             !.page_files = r.files]
         IN [ok |-> r.ok, e |-> IF r.ok THEN init_primary_index(e1, schema) ELSE e1]

\* the loop of insert as it would be if it tried the page max_page_id only
InsertIntoTopPage(e, table_name, row_values, page_id) ==
    IF page_id < 1 THEN [ok |-> FALSE, e |-> e]
    ELSE LET g == get_page(e, table_name, page_id)
             key == <<table_name, page_id>>
             ins == IF g.found THEN insert_row(g.e.page_cache[key], NewRow(row_values))
                    ELSE [ok |-> FALSE]
         IN IF g.found /\ ins.ok
            THEN LET e1 == [g.e EXCEPT !.page_cache = Put(g.e.page_cache, key, ins.page)]
                     e2 == write_page(e1, table_name, page_id)
                 IN [ok |-> TRUE, e |-> insert_index_row(e2, table_name, row_values)]
            ELSE [ok |-> FALSE, e |-> g.e]

RECURSIVE InsertIntoPages(_, _, _, _)
\* the loop of insert over the existing pages, from max_page_id down to 1:
\* [ok, e]
InsertIntoPages(e, table_name, row_values, page_id) ==
    IF page_id < 1 THEN [ok |-> FALSE, e |-> e]
    ELSE LET g == get_page(e, table_name, page_id)
             key == <<table_name, page_id>>
             ins == IF g.found THEN insert_row(g.e.page_cache[key], NewRow(row_values))
                    ELSE [ok |-> FALSE]
         IN IF g.found /\ ins.ok
            THEN LET e1 == [g.e EXCEPT !.page_cache = Put(g.e.page_cache, key, ins.page)]
                     e2 == write_page(e1, table_name, page_id)
                 IN [ok |-> TRUE, e |-> insert_index_row(e2, table_name, row_values)]
            ELSE InsertIntoPages(g.e, table_name, row_values, page_id - 1)

\* ExecutionEngine::insert: [ok, e]
insert(e, table_name, row_values) ==
    IF table_name \notin DOMAIN e.schema_cache
       \/ Len(row_values) # e.schema_cache[table_name].column_count
    THEN [ok |-> FALSE, e |-> e]
    ELSE LET mx == get_table_max_page_id(e, table_name)
             tried == InsertIntoPages(mx.e, table_name, row_values, mx.max_id)
         IN IF tried.ok THEN tried
            ELSE LET np == create_new_page(tried.e, table_name)
                     key == <<table_name, np.page_id>>
                     ins == insert_row(np.e.page_cache[key], NewRow(row_values))
                 IN IF ins.ok
                    THEN LET e1 == [np.e EXCEPT !.page_cache =
                                        Put(np.e.page_cache, key, ins.page)]
                             e2 == write_page(e1, table_name, np.page_id)
                         IN [ok |-> TRUE,
                             e |-> insert_index_row(e2, table_name, row_values)]
                    ELSE [ok |-> FALSE, e |-> np.e]

RECURSIVE InsertManyLoop(_, _, _, _, _)
\* the loop of insert_many: each insert runs once, and the next one starts
\* from the engine it left
InsertManyLoop(e, table_name, rows, i, ok_count) ==
    IF i > Len(rows) THEN [ok_count |-> ok_count, e |-> e]
    ELSE Only({InsertManyLoop(r.e, table_name, rows, i + 1,
                              IF r.ok THEN ok_count + 1 ELSE ok_count) :
                   r \in {insert(e, table_name, rows[i])}})

\* ExecutionEngine::insert_many: [ok_count, e]
insert_many(e, table_name, rows) == InsertManyLoop(e, table_name, rows, 1, 0)

RECURSIVE ScanPages(_, _, _, _, _)

RECURSIVE ScanPagesBelowMax(_, _, _, _, _)
\* seq_scan with the page loop written page_id < max_page_id
ScanPagesBelowMax(e, table_name, page_id, max_page_id, all_rows) ==
    IF page_id >= max_page_id THEN [rows |-> all_rows, e |-> e]
    ELSE LET g == get_page(e, table_name, page_id)
         IN ScanPagesBelowMax(g.e, table_name, page_id + 1, max_page_id,
                      IF g.found
                      THEN all_rows \o get_rows(g.e.page_cache[<<table_name, page_id>>])
                      ELSE all_rows)

\* the page loop of seq_scan, page_id = 1 .. max_page_id
ScanPages(e, table_name, page_id, max_page_id, all_rows) ==
    IF page_id > max_page_id THEN [rows |-> all_rows, e |-> e]
    ELSE LET g == get_page(e, table_name, page_id)
         IN ScanPages(g.e, table_name, page_id + 1, max_page_id,
                      IF g.found
                      THEN all_rows \o get_rows(g.e.page_cache[<<table_name, page_id>>])
                      ELSE all_rows)

\* ExecutionEngine::seq_scan: [rows, e]
seq_scan(e, table_name) ==
    IF table_name \notin DOMAIN e.schema_cache THEN [rows |-> <<>>, e |-> e]
    ELSE LET mx == get_table_max_page_id(e, table_name)
         IN ScanPages(mx.e, table_name, 1, mx.max_id, <<>>)

\* a predicate of the caller: the value of column col (0-based) equals val
Pred(p, values) == p.col < Len(values) /\ values[p.col + 1] = p.val

\* The row loop of delete_rows on one page.  page_rows are the Row objects
\* that get_rows built from the page bytes; mark_deleted sets is_deleted of
\* those objects, which delete_rows then drops.  [count, marked]
MarkDeleted(page_rows, p) ==
    [count  |-> Cardinality({i \in 1..Len(page_rows) :
                    Pred(p, page_rows[i].values) /\ ~page_rows[i].is_deleted}),
     marked |-> [i \in 1..Len(page_rows) |->
                    IF Pred(p, page_rows[i].values) /\ ~page_rows[i].is_deleted
                    THEN [page_rows[i] EXCEPT !.is_deleted = TRUE]
                    ELSE page_rows[i]]]

\* The page that delete_rows leaves in the cache after its row loop: the
\* buffer as it was, dirty when a row matched.
DeletedPage(page, p) ==
    LET m == MarkDeleted(get_rows(page), p)
    IN [count |-> m.count,
        page  |-> [page EXCEPT !.is_dirty = page.is_dirty \/ m.count > 0]]

RECURSIVE DeletePages(_, _, _, _, _, _)
DeletePages(e, table_name, p, page_id, max_page_id, deleted_count) ==
    IF page_id > max_page_id THEN [count |-> deleted_count, e |-> e]
    ELSE LET g == get_page(e, table_name, page_id)
             key == <<table_name, page_id>>
         IN IF ~g.found
            THEN DeletePages(g.e, table_name, p, page_id + 1, max_page_id, deleted_count)
            ELSE LET d == DeletedPage(g.e.page_cache[key], p)
                     e1 == [g.e EXCEPT !.page_cache = Put(g.e.page_cache, key, d.page)]
                 IN DeletePages(write_page(e1, table_name, page_id), table_name, p,
                                page_id + 1, max_page_id, deleted_count + d.count)

\* delete_rows as it would be if it also emptied the primary index of the table
DeleteRowsPurgingIndex(e, table_name, p) ==
    IF table_name \notin DOMAIN e.schema_cache THEN [count |-> 0, e |-> e]
    ELSE LET mx == get_table_max_page_id(e, table_name)
             d == DeletePages(mx.e, table_name, p, 1, mx.max_id, 0)
         IN IF d.count > 0 /\ table_name \in DOMAIN d.e.primary_indexes
            THEN [count |-> d.count,
                  e |-> [d.e EXCEPT !.primary_indexes[table_name].pk_to_row_values = EmptyMap]]
            ELSE d

\* ExecutionEngine::delete_rows: [count, e]
delete_rows(e, table_name, p) ==
    IF table_name \notin DOMAIN e.schema_cache THEN [count |-> 0, e |-> e]
    ELSE LET mx == get_table_max_page_id(e, table_name)
         IN DeletePages(mx.e, table_name, p, 1, mx.max_id, 0)

\* col_name_to_idx of update_rows: the last column of that name (0-based), or -1
ColNameToIdx(schema, col_name) ==
    LET C == {i \in 1..Len(schema.columns) : schema.columns[i].name = col_name}
    IN IF C = {} THEN -1 ELSE (CHOOSE i \in C : \A j \in C : j <= i) - 1

RECURSIVE ApplySet(_, _, _, _)
\* the SET loop of update_rows: [values, has_update]
ApplySet(schema, set_clauses, i, acc) ==
    IF i > Len(set_clauses) THEN acc
    ELSE LET idx == ColNameToIdx(schema, set_clauses[i][1])
         IN ApplySet(schema, set_clauses, i + 1,
                IF idx >= 0
                THEN [values |-> [acc.values EXCEPT ![idx + 1] = set_clauses[i][2]],
                      has_update |-> TRUE]
                ELSE acc)

RECURSIVE UpdateRowsOnPageAlwaysIndex(_, _, _, _, _, _, _, _)
\* the row loop as it would be if the index were maintained whether or not the
\* page took the new row
UpdateRowsOnPageAlwaysIndex(e, table_name, page_id, page_rows, i, set_clauses, p, updated_count) ==
    IF i > Len(page_rows) THEN [count |-> updated_count, e |-> e]
    ELSE LET row == page_rows[i]
             key == <<table_name, page_id>>
         IN IF Pred(p, row.values) /\ ~row.is_deleted
            THEN LET a == ApplySet(e.schema_cache[table_name], set_clauses, 1,
                                   [values |-> row.values, has_update |-> FALSE])
                 IN IF a.has_update
                    THEN LET ins == insert_row(e.page_cache[key], NewRow(a.values))
                             pg == [ins.page EXCEPT !.is_dirty = TRUE]
                             e1 == [e EXCEPT !.page_cache = Put(e.page_cache, key, pg)]
                             e2 == insert_index_row(e1, table_name, a.values)
                         IN UpdateRowsOnPageAlwaysIndex(e2, table_name, page_id, page_rows,
                                i + 1, set_clauses, p,
                                IF ins.ok THEN updated_count + 1 ELSE updated_count)
                    ELSE UpdateRowsOnPageAlwaysIndex(e, table_name, page_id, page_rows, i + 1,
                                          set_clauses, p, updated_count)
            ELSE UpdateRowsOnPageAlwaysIndex(e, table_name, page_id, page_rows, i + 1,
                                  set_clauses, p, updated_count)

RECURSIVE UpdateRowsOnPage(_, _, _, _, _, _, _, _)
\* the row loop of update_rows on one page: page_rows are the Row objects
\* get_rows built before the loop; mark_deleted acts on those objects, the
\* reinsert on the cached page.  [count, e]
UpdateRowsOnPage(e, table_name, page_id, page_rows, i, set_clauses, p, updated_count) ==
    IF i > Len(page_rows) THEN [count |-> updated_count, e |-> e]
    ELSE LET row == page_rows[i]
             key == <<table_name, page_id>>
         IN IF Pred(p, row.values) /\ ~row.is_deleted
            THEN LET a == ApplySet(e.schema_cache[table_name], set_clauses, 1,
                                   [values |-> row.values, has_update |-> FALSE])
                 IN IF a.has_update
                    THEN LET ins == insert_row(e.page_cache[key], NewRow(a.values))
                             pg == [ins.page EXCEPT !.is_dirty = TRUE]
                             e1 == [e EXCEPT !.page_cache = Put(e.page_cache, key, pg)]
                             e2 == IF ins.ok
                                   THEN insert_index_row(e1, table_name, a.values)
                                   ELSE e1
                         IN UpdateRowsOnPage(e2, table_name, page_id, page_rows, i + 1,
                                set_clauses, p,
                                IF ins.ok THEN updated_count + 1 ELSE updated_count)
                    ELSE UpdateRowsOnPage(e, table_name, page_id, page_rows, i + 1,
                                          set_clauses, p, updated_count)
            ELSE UpdateRowsOnPage(e, table_name, page_id, page_rows, i + 1,
                                  set_clauses, p, updated_count)

RECURSIVE UpdatePages(_, _, _, _, _, _, _)
UpdatePages(e, table_name, set_clauses, p, page_id, max_page_id, updated_count) ==
    IF page_id > max_page_id THEN [count |-> updated_count, e |-> e]
    ELSE LET g == get_page(e, table_name, page_id)
             key == <<table_name, page_id>>
         IN IF ~g.found
            THEN UpdatePages(g.e, table_name, set_clauses, p, page_id + 1,
                             max_page_id, updated_count)
            ELSE LET u == UpdateRowsOnPage(g.e, table_name, page_id,
                              get_rows(g.e.page_cache[key]), 1, set_clauses, p, 0)
                 IN UpdatePages(write_page(u.e, table_name, page_id), table_name,
                                set_clauses, p, page_id + 1, max_page_id,
                                updated_count + u.count)

\* ExecutionEngine::update_rows: [count, e]
update_rows(e, table_name, set_clauses, p) ==
    IF table_name \notin DOMAIN e.schema_cache THEN [count |-> 0, e |-> e]
    ELSE LET mx == get_table_max_page_id(e, table_name)
         IN UpdatePages(mx.e, table_name, set_clauses, p, 1, mx.max_id, 0)

\* SystemCatalog::get_column_index: the first column of that name (0-based),
\* or -1 when the table or the column is missing
get_column_index(schema_cache, table_name, col_name) ==
    IF table_name \notin DOMAIN schema_cache THEN -1
    ELSE LET columns == schema_cache[table_name].columns
             C == {i \in 1..Len(columns) : columns[i].name = col_name}
         IN IF C = {} THEN -1 ELSE (CHOOSE i \in C : \A k \in C : i <= k) - 1

\* right_index[key] of inner_join: the right rows that have the join column
\* and hold key in it, in scan order
RightIndex(right_rows, right_col_idx, key) ==
    SelectSeq(right_rows, LAMBDA r : /\ right_col_idx < Len(r.values)
                                     /\ r.values[right_col_idx + 1] = key)

\* the rows left_vals \o right_vals for one left row and its matches
JoinedWith(left_vals, matches) ==
    [k \in 1..Len(matches) |-> left_vals \o matches[k].values]

RECURSIVE InnerJoinLoop(_, _, _, _, _)
\* the probe loop of inner_join over the left rows
InnerJoinLoop(left_rows, i, right_rows, left_col_idx, right_col_idx) ==
    IF i > Len(left_rows) THEN <<>>
    ELSE LET left_vals == left_rows[i].values
         IN (IF left_col_idx < Len(left_vals)
             THEN JoinedWith(left_vals,
                             RightIndex(right_rows, right_col_idx,
                                        left_vals[left_col_idx + 1]))
             ELSE <<>>)
            \o InnerJoinLoop(left_rows, i + 1, right_rows, left_col_idx, right_col_idx)

\* ExecutionEngine::inner_join: [rows, e]
inner_join(e, left_table, right_table, left_col, right_col) ==
    LET left_col_idx == get_column_index(e.schema_cache, left_table, left_col)
        right_col_idx == get_column_index(e.schema_cache, right_table, right_col)
    IN IF left_table \notin DOMAIN e.schema_cache
          \/ right_table \notin DOMAIN e.schema_cache
          \/ left_col_idx < 0 \/ right_col_idx < 0
       THEN [rows |-> <<>>, e |-> e]
       ELSE Only({Only({[rows |-> InnerJoinLoop(l.rows, 1, r.rows,
                                                left_col_idx, right_col_idx),
                         e |-> r.e] :
                           r \in {seq_scan(l.e, right_table)}}) :
                     l \in {seq_scan(e, left_table)}})

\* key_of of merge_join: the value of column idx, or "" for a short row
key_of(r, idx) == IF idx < Len(r.values) THEN r.values[idx + 1] ELSE <<>>

\* one step of the sort of merge_join: row r placed into the sorted rows.
\* std::sort leaves the order of rows with equal keys unspecified: r goes
\* behind the rows with an equal key (after_equal) or in front of them.
SortInsert(sorted, r, idx, after_equal) ==
    LET Before(a) == IF after_equal THEN ~StrLess(key_of(r, idx), key_of(a, idx))
                     ELSE StrLess(key_of(a, idx), key_of(r, idx))
    IN SelectSeq(sorted, Before) \o <<r>>
         \o SelectSeq(sorted, LAMBDA a : ~Before(a))

RECURSIVE SortRows(_, _, _, _, _)
\* std::sort of the rows by key_of(row, idx)
SortRows(rows, i, idx, after_equal, sorted) ==
    IF i > Len(rows) THEN sorted
    ELSE SortRows(rows, i + 1, idx, after_equal,
                  SortInsert(sorted, rows[i], idx, after_equal))

RECURSIVE KeyRunEnd(_, _, _, _)
\* the loops computing i2 and j2: the first position at or after i (1-based)
\* whose key differs from k, or Len(rows) + 1
KeyRunEnd(rows, i, idx, k) ==
    IF i > Len(rows) THEN i
    ELSE IF key_of(rows[i], idx) # k THEN i
    ELSE KeyRunEnd(rows, i + 1, idx, k)

\* the nested loops over [i, i2) x [j, j2): every left row of the run with
\* every right row of the run
CrossRuns(lrows, i, i2, rrows, j, j2) ==
    [n \in 1..((i2 - i) * (j2 - j)) |->
        lrows[i + ((n - 1) \div (j2 - j))].values
          \o rrows[j + ((n - 1) % (j2 - j))].values]

RECURSIVE MergeLoopOnePair(_, _, _, _, _, _)
\* the merge loop emitting one pair per equal key and advancing both sides
\* by one row
MergeLoopOnePair(lrows, rrows, i, j, lidx, ridx) ==
    IF ~(i <= Len(lrows) /\ j <= Len(rrows)) THEN <<>>
    ELSE LET lk == key_of(lrows[i], lidx)
             rk == key_of(rrows[j], ridx)
         IN IF StrLess(lk, rk) THEN MergeLoopOnePair(lrows, rrows, i + 1, j, lidx, ridx)
            ELSE IF StrLess(rk, lk) THEN MergeLoopOnePair(lrows, rrows, i, j + 1, lidx, ridx)
            ELSE <<lrows[i].values \o rrows[j].values>>
                   \o MergeLoopOnePair(lrows, rrows, i + 1, j + 1, lidx, ridx)

RECURSIVE MergeLoop(_, _, _, _, _, _)
\* the merge loop of merge_join (i and j 1-based)
MergeLoop(lrows, rrows, i, j, lidx, ridx) ==
    IF ~(i <= Len(lrows) /\ j <= Len(rrows)) THEN <<>>
    ELSE LET lk == key_of(lrows[i], lidx)
             rk == key_of(rrows[j], ridx)
         IN IF StrLess(lk, rk) THEN MergeLoop(lrows, rrows, i + 1, j, lidx, ridx)
            ELSE IF StrLess(rk, lk) THEN MergeLoop(lrows, rrows, i, j + 1, lidx, ridx)
            ELSE LET i2 == KeyRunEnd(lrows, i, lidx, lk)
                     j2 == KeyRunEnd(rrows, j, ridx, rk)
                 IN CrossRuns(lrows, i, i2, rrows, j, j2)
                      \o MergeLoop(lrows, rrows, i2, j2, lidx, ridx)

\* ExecutionEngine::merge_join: [rows, e]; after_equal selects the order
\* std::sort gives to rows with equal keys
merge_join(e, left_table, right_table, left_col, right_col, after_equal) ==
    LET lidx == get_column_index(e.schema_cache, left_table, left_col)
        ridx == get_column_index(e.schema_cache, right_table, right_col)
    IN IF lidx < 0 \/ ridx < 0 THEN [rows |-> <<>>, e |-> e]
       ELSE Only({Only({[rows |-> MergeLoop(SortRows(l.rows, 1, lidx, after_equal, <<>>),
                                            SortRows(r.rows, 1, ridx, after_equal, <<>>),
                                            1, 1, lidx, ridx),
                         e |-> r.e] :
                           r \in {seq_scan(l.e, right_table)}}) :
                     l \in {seq_scan(e, left_table)}})

\* ExecutionEngine::drop_table: [ok, e]
drop_table(e, table_name) ==
    IF table_name = <<>> \/ table_name \notin DOMAIN e.schema_cache
    THEN [ok |-> FALSE, e |-> e]
    ELSE LET u == unregister_table(e.schema_cache, e.catalog_page, e.page_files, table_name)
             e1 == [e EXCEPT !.schema_cache = u.schema_cache,
                             !.catalog_page = u.catalog_page,
                             !.page_files = u.files]
         IN IF ~u.ok THEN [ok |-> FALSE, e |-> e1]
            ELSE [ok |-> TRUE, e |-> drop_table_data(e1, table_name)]

----------------------------------------------------------------------------
(* MVCC version chains.  heads maps (table, pk) to the chain from its head   *)
(* node, a sequence of nodes, newest first; a null head is the empty chain.  *)
(* xmax is <<>> for nullopt and <<tx>> once set.                             *)

\* VersionNode(v, tx, c)
VersionNode(v, tx, c) == [values |-> v, xmin |-> tx, xmax |-> <<>>, committed |-> c]

\* StorageEngine::mvcc_insert_uncommitted: [ok, heads]
mvcc_insert_uncommitted(heads, table_name, row_values, txid, pk_index) ==
    IF pk_index >= Len(row_values) THEN [ok |-> FALSE, heads |-> heads]
    ELSE LET key == <<table_name, row_values[pk_index + 1]>>
             head == IF key \in DOMAIN heads THEN heads[key] ELSE <<>>
         IN [ok |-> TRUE,
             heads |-> Put(heads, key, <<VersionNode(row_values, txid, FALSE)>> \o head)]

\* mvcc_commit_insert without the xmin == txid test: any transaction commits
\* an uncommitted head
CommitInsertAnyOwner(heads, table_name, pk, txid) ==
    LET key == <<table_name, pk>>
    IN IF key \notin DOMAIN heads \/ heads[key] = <<>> THEN [ok |-> FALSE, heads |-> heads]
       ELSE IF ~heads[key][1].committed
       THEN [ok |-> TRUE, heads |-> [heads EXCEPT ![key][1].committed = TRUE]]
       ELSE [ok |-> FALSE, heads |-> heads]

\* StorageEngine::mvcc_commit_insert: [ok, heads]
mvcc_commit_insert(heads, table_name, pk, txid) ==
    LET key == <<table_name, pk>>
    IN IF key \notin DOMAIN heads \/ heads[key] = <<>> THEN [ok |-> FALSE, heads |-> heads]
       ELSE IF heads[key][1].xmin = txid /\ ~heads[key][1].committed
       THEN [ok |-> TRUE, heads |-> [heads EXCEPT ![key][1].committed = TRUE]]
       ELSE [ok |-> FALSE, heads |-> heads]

\* mvcc_rollback_insert without the xmin == txid test: any transaction removes
\* an uncommitted head
RollbackInsertAnyOwner(heads, table_name, pk, txid) ==
    LET key == <<table_name, pk>>
    IN IF key \notin DOMAIN heads \/ heads[key] = <<>> THEN [ok |-> FALSE, heads |-> heads]
       ELSE IF ~heads[key][1].committed
       THEN [ok |-> TRUE, heads |-> [heads EXCEPT ![key] = Tail(heads[key])]]
       ELSE [ok |-> FALSE, heads |-> heads]

\* StorageEngine::mvcc_rollback_insert: [ok, heads]
mvcc_rollback_insert(heads, table_name, pk, txid) ==
    LET key == <<table_name, pk>>
    IN IF key \notin DOMAIN heads \/ heads[key] = <<>> THEN [ok |-> FALSE, heads |-> heads]
       ELSE IF heads[key][1].xmin = txid /\ ~heads[key][1].committed
       THEN [ok |-> TRUE, heads |-> [heads EXCEPT ![key] = Tail(heads[key])]]
       ELSE [ok |-> FALSE, heads |-> heads]

\* the walk as it would be without the test of xmax: the first committed node
DeleteTargetAnyCommitted(chain) ==
    LET C == {i \in 1..Len(chain) : chain[i].committed}
    IN IF C = {} THEN 0 ELSE CHOOSE i \in C : \A j \in C : i <= j

\* the node the walk of mvcc_mark_delete_commit stops at: the first committed
\* node without xmax (its position from the head), or 0
DeleteTarget(chain) ==
    LET C == {i \in 1..Len(chain) : chain[i].committed /\ chain[i].xmax = <<>>}
    IN IF C = {} THEN 0 ELSE CHOOSE i \in C : \A j \in C : i <= j

\* StorageEngine::mvcc_mark_delete_commit: [ok, heads]
mvcc_mark_delete_commit(heads, table_name, pk, txid) ==
    LET key == <<table_name, pk>>
    IN IF key \notin DOMAIN heads THEN [ok |-> FALSE, heads |-> heads]
       ELSE LET i == DeleteTarget(heads[key])
            IN IF i = 0 THEN [ok |-> FALSE, heads |-> heads]
               ELSE [ok |-> TRUE, heads |-> [heads EXCEPT ![key][i].xmax = <<txid>>]]

\* the test without the xmin == reader_txid condition: an uncommitted node is
\* shown to every reader
VisibleNodeDirtyRead(node, reader_txid, active_txids) ==
    IF ~node.committed THEN TRUE
    ELSE node.xmax = <<>> /\ node.xmin \notin active_txids

\* the test of the walk of mvcc_lookup_visible on one node
VisibleNode(node, reader_txid, active_txids) ==
    IF ~node.committed THEN node.xmin = reader_txid
    ELSE node.xmax = <<>> /\ node.xmin \notin active_txids

\* the walk as it would be if it went on to the last node that passes the test
LookupPosOldest(chain, reader_txid, active_txids) ==
    LET V == {i \in 1..Len(chain) : VisibleNode(chain[i], reader_txid, active_txids)}
    IN IF V = {} THEN 0 ELSE CHOOSE i \in V : \A j \in V : j <= i

\* the position (from the head) of the node mvcc_lookup_visible returns, or 0
LookupPos(chain, reader_txid, active_txids) ==
    LET V == {i \in 1..Len(chain) : VisibleNode(chain[i], reader_txid, active_txids)}
    IN IF V = {} THEN 0 ELSE CHOOSE i \in V : \A j \in V : i <= j

\* StorageEngine::mvcc_lookup_visible: <<values>>, or <<>> for nullopt
mvcc_lookup_visible(heads, table_name, pk, reader_txid, active_txids) ==
    LET key == <<table_name, pk>>
    IN IF key \notin DOMAIN heads THEN <<>>
       ELSE LET i == LookupPos(heads[key], reader_txid, active_txids)
            IN IF i = 0 THEN <<>> ELSE <<heads[key][i].values>>

----------------------------------------------------------------------------
(* State *)

VARIABLES
    schema_cache,        \* SystemCatalog::schema_cache
    catalog_page,        \* SystemCatalog::catalog_page
    page_cache,          \* StorageEngine::page_cache
    table_max_page_id,   \* StorageEngine::table_max_page_id
    primary_indexes,     \* StorageEngine::primary_indexes
    composite_indexes,   \* StorageEngine::composite_indexes
    mvcc_heads,          \* StorageEngine::mvcc_heads
    page_files,          \* the files <table>_page_<id>.bin of the working directory
    cidx_files,          \* the files <table>_cidx.meta / .bin / .wal
    nops,                \* history: the number of operator calls so far
    last,                \* history: the last call, its arguments and its result
    hist                 \* history: per table name, what the calls so far did

vars == <<schema_cache, catalog_page, page_cache, table_max_page_id, primary_indexes,
          composite_indexes, mvcc_heads, page_files, cidx_files, nops, last, hist>>

\* the engine and the working directory as one value
Eng == [schema_cache |-> schema_cache, catalog_page |-> catalog_page,
        page_cache |-> page_cache, table_max_page_id |-> table_max_page_id,
        primary_indexes |-> primary_indexes, composite_indexes |-> composite_indexes,
        page_files |-> page_files, cidx_files |-> cidx_files]

SetEng(e) ==
    /\ schema_cache' = e.schema_cache
    /\ catalog_page' = e.catalog_page
    /\ page_cache' = e.page_cache
    /\ table_max_page_id' = e.table_max_page_id
    /\ primary_indexes' = e.primary_indexes
    /\ composite_indexes' = e.composite_indexes
    /\ page_files' = e.page_files
    /\ cidx_files' = e.cidx_files

----------------------------------------------------------------------------
(* Inputs of the model *)

\* "t"
T == <<116>>

TableNames == {T}

\* "u", the second table of the joins
U == <<117>>

AllTables == {T, U}

S_id == <<105, 100>>

S_name == <<110, 97, 109, 101>>

\* "a:b"
S_a_b == <<97, COLON, 98>>

V1 == <<DIGIT0 + 1>>

V2 == <<DIGIT0 + 2>>

VA == <<65>>

VB == <<66>>

VBig == Rep(120, BigLen)

VHuge == Rep(120, HugeLen)

\* t(id INT PK, name STRING)
ColsPlain == <<Column(S_id, "INT", TRUE), Column(S_name, "STRING", FALSE)>>

\* t(id INT, name STRING): no primary key
ColsNoPk == <<Column(S_id, "INT", FALSE), Column(S_name, "STRING", FALSE)>>

\* t(id INT PK, "a:b" DOUBLE PK): a column name that holds the separator
ColsColon == <<Column(S_id, "INT", TRUE), Column(S_a_b, "DOUBLE", TRUE)>>

\* t(id INT PK, <a name longer than a page> STRING): no catalog page admits it
ColsBig == <<Column(S_id, "INT", TRUE), Column(VHuge, "STRING", FALSE)>>

RowSmall1 == <<V1, VA>>

RowSmall2 == <<V2, VA>>

RowSmall3 == <<V1, VB>>

\* ("10", "B"): "1" < "10" < "2" in string order
Row10 == <<V1 \o <<DIGIT0>>, VB>>

\* ("2", ""): an empty value in the second column
RowEmpty == <<V2, <<>>>>

RowBig == <<V2, VBig>>

RowHuge == <<V1, VHuge>>

Preds == {[col |-> 0, val |-> V1], [col |-> 1, val |-> VA]}

SetClauses == {<<(<<S_name, VB>>)>>, <<(<<S_id, V2>>)>>}

----------------------------------------------------------------------------
(* History variables *)

NoCall == [op |-> "none", table |-> <<>>, ret |-> 0, arg |-> 0, pre |-> 0]

HistInit == [ins |-> <<>>, pristine |-> TRUE, life_ins |-> <<>>,
             life_only_ins |-> TRUE, accepted |-> <<>>, cidx_clean |-> FALSE,
             dropped |-> FALSE, tried |-> <<>>]

\* the values of the rows of a scan
ValuesOf(rows) == [i \in 1..Len(rows) |-> rows[i].values]

RECURSIVE InsertedRows(_, _, _, _)
\* the rows of a batch whose insert returns true, in order
InsertedRows(e, table_name, rows, i) ==
    IF i > Len(rows) THEN <<>>
    ELSE Only({(IF r.ok THEN <<rows[i]>> ELSE <<>>)
                  \o InsertedRows(r.e, table_name, rows, i + 1) :
                   r \in {insert(e, table_name, rows[i])}})

Init ==
    /\ schema_cache = EmptyMap
    /\ catalog_page = NewPage(0)
    /\ page_cache = EmptyMap
    /\ table_max_page_id = EmptyMap
    /\ primary_indexes = EmptyMap
    /\ composite_indexes = EmptyMap
    /\ mvcc_heads = EmptyMap
    /\ page_files = EmptyMap
    /\ cidx_files = EmptyMap
    /\ nops = 0
    /\ last = NoCall
    /\ hist = [t \in AllTables |-> HistInit]

----------------------------------------------------------------------------
(* Operator calls *)

\* the pages of every table stay within the model's bound
WithinPages(e) == \A t \in DOMAIN e.table_max_page_id : e.table_max_page_id[t] <= MaxPages

CreateTable(t, columns) ==
    /\ nops < MaxOps
    /\ \E r \in {create_table(Eng, t, columns)} :
          /\ SetEng(r.e)
          /\ last' = [NoCall EXCEPT !.op = "create_table", !.table = t, !.ret = r.ok,
                                    !.arg = columns]
          /\ hist' = IF r.ok
                     THEN [hist EXCEPT ![t].accepted = <<TableSchema(t, columns)>>,
                                       ![t].life_ins = <<>>,
                                       ![t].life_only_ins = TRUE,
                                       ![t].cidx_clean = FALSE,
                                       ![t].dropped = FALSE]
                     ELSE hist
    /\ nops' = nops + 1
    /\ UNCHANGED mvcc_heads

Insert(t, row_values) ==
    /\ nops < MaxOps
    /\ \E r \in {insert(Eng, t, row_values)} :
          /\ WithinPages(r.e)
          /\ SetEng(r.e)
          /\ last' = [NoCall EXCEPT !.op = "insert", !.table = t, !.ret = r.ok,
                                    !.arg = row_values]
          /\ hist' = IF r.ok
                     THEN [hist EXCEPT ![t].ins = Append(@, row_values),
                                       ![t].life_ins = Append(@, row_values)]
                     ELSE hist
    /\ nops' = nops + 1
    /\ UNCHANGED mvcc_heads

InsertMany(t, rows) ==
    /\ nops < MaxOps
    /\ \E r \in {insert_many(Eng, t, rows)},
          okrows \in {InsertedRows(Eng, t, rows, 1)} :
          /\ WithinPages(r.e)
          /\ SetEng(r.e)
          /\ last' = [NoCall EXCEPT !.op = "insert_many", !.table = t,
                                    !.ret = r.ok_count, !.arg = rows,
                                    !.pre = Len(seq_scan(Eng, t).rows)]
          /\ hist' = [hist EXCEPT ![t].ins = @ \o okrows,
                                  ![t].life_ins = @ \o okrows]
    /\ nops' = nops + 1
    /\ UNCHANGED mvcc_heads

SeqScan(t) ==
    /\ nops < MaxOps
    /\ \E r \in {seq_scan(Eng, t)} :
          /\ SetEng(r.e)
          /\ last' = [NoCall EXCEPT !.op = "seq_scan", !.table = t,
                                    !.ret = ValuesOf(r.rows)]
    /\ nops' = nops + 1
    /\ UNCHANGED <<mvcc_heads, hist>>

DeleteRows(t, p) ==
    /\ nops < MaxOps
    /\ \E r \in {delete_rows(Eng, t, p)},
          before \in {ValuesOf(seq_scan(Eng, t).rows)} :
          /\ SetEng(r.e)
          /\ last' = [NoCall EXCEPT !.op = "delete_rows", !.table = t, !.ret = r.count,
                                    !.arg = p, !.pre = before]
    /\ hist' = [hist EXCEPT ![t].pristine = FALSE, ![t].life_only_ins = FALSE]
    /\ nops' = nops + 1
    /\ UNCHANGED mvcc_heads

UpdateRows(t, set_clauses, p) ==
    /\ nops < MaxOps
    /\ \E r \in {update_rows(Eng, t, set_clauses, p)},
          before \in {ValuesOf(seq_scan(Eng, t).rows)} :
          /\ SetEng(r.e)
          /\ last' = [NoCall EXCEPT !.op = "update_rows", !.table = t, !.ret = r.count,
                                    !.arg = <<set_clauses, p>>, !.pre = before]
    /\ hist' = [hist EXCEPT ![t].pristine = FALSE, ![t].life_only_ins = FALSE]
    /\ nops' = nops + 1
    /\ UNCHANGED mvcc_heads

EnableCompositeIndex(t, indices) ==
    /\ nops < MaxOps
    /\ \E r \in {enable_composite_index(Eng, t, indices)} :
          /\ SetEng(r.e)
          /\ last' = [NoCall EXCEPT !.op = "enable_composite_index", !.table = t,
                                    !.ret = r.ok, !.arg = indices]
          /\ hist' = IF r.ok THEN [hist EXCEPT ![t].cidx_clean = TRUE] ELSE hist
    /\ nops' = nops + 1
    /\ UNCHANGED mvcc_heads

DropTable(t) ==
    /\ nops < MaxOps
    /\ \E r \in {drop_table(Eng, t)} :
          /\ SetEng(r.e)
          /\ last' = [NoCall EXCEPT !.op = "drop_table", !.table = t, !.ret = r.ok,
                                    !.pre = IF t \in DOMAIN table_max_page_id
                                            THEN table_max_page_id[t] ELSE 0]
          /\ hist' = [hist EXCEPT ![t] =
                        IF r.ok THEN [HistInit EXCEPT !.pristine = FALSE, !.dropped = TRUE]
                        ELSE [hist[t] EXCEPT !.pristine = FALSE, !.cidx_clean = FALSE]]
    /\ nops' = nops + 1
    /\ UNCHANGED mvcc_heads

\* The process ends (pages are written by the operators themselves; nothing
\* is flushed on exit) and a fresh StorageEngine starts in the same directory.
Restart ==
    /\ nops < MaxOps
    /\ SetEng(StorageEngine(page_files, cidx_files))
    /\ mvcc_heads' = EmptyMap
    /\ last' = [NoCall EXCEPT !.op = "restart", !.pre = composite_indexes]
    /\ hist' = [t \in AllTables |->
                   [hist[t] EXCEPT !.pristine = FALSE, !.life_ins = <<>>,
                                   !.life_only_ins = TRUE]]
    /\ nops' = nops + 1

\* the 0-based offset behind the record that starts at pos, as append_cidx_wal
\* lays it out: [u32 klen][key][u32 cnt] { [u32 len][bytes] }; an offset
\* beyond the log when the log ends before the record does
RecordEnd(bytes, pos) ==
    IF pos + U32 > Len(bytes) THEN Len(bytes) + 1
    ELSE LET klen == DecInt(bytes, pos, U32)
         IN IF pos + U32 + klen + U32 > Len(bytes) THEN Len(bytes) + 1
            ELSE LET cnt == DecInt(bytes, pos + U32 + klen, U32)
                     f == ReadCidxFields(bytes, pos + U32 + klen + U32, cnt, <<>>)
                 IN IF f.ok THEN f.pos ELSE Len(bytes) + 1

RECURSIVE LastRecordStart(_, _)
\* the offset where the last record of a log of complete records starts
LastRecordStart(bytes, pos) ==
    IF RecordEnd(bytes, pos) >= Len(bytes) THEN pos
    ELSE LastRecordStart(bytes, RecordEnd(bytes, pos))

\* The process stops while append_cidx_wal is writing: the log of table t is
\* left cut at offset cut inside its last record, and a fresh StorageEngine
\* starts in the same directory.  last.pre is the index a start from the log
\* without that record gives.
TornRestart(t, cut) ==
    /\ nops <= MaxOps
    /\ <<t, "wal">> \in DOMAIN cidx_files
    /\ LET wal == cidx_files[<<t, "wal">>]
       IN /\ wal # <<>>
          /\ LET start == LastRecordStart(wal, 0)
                 torn == Put(cidx_files, <<t, "wal">>, SubSeq(wal, 1, start + cut))
                 whole == Put(cidx_files, <<t, "wal">>, SubSeq(wal, 1, start))
             IN /\ RecordEnd(wal, start) = Len(wal)
                /\ start + cut < Len(wal)
                /\ SetEng(StorageEngine(page_files, torn))
                /\ last' = [NoCall EXCEPT
                              !.op = "torn_restart", !.table = t, !.arg = cut,
                              !.ret = start,
                              !.pre = StorageEngine(page_files, whole).composite_indexes]
    /\ mvcc_heads' = EmptyMap
    /\ hist' = [x \in AllTables |->
                   [hist[x] EXCEPT !.pristine = FALSE, !.life_ins = <<>>,
                                   !.life_only_ins = TRUE, !.cidx_clean = FALSE]]
    /\ UNCHANGED nops

Next ==
    \/ \E t \in TableNames, c \in {ColsPlain, ColsColon, ColsBig} : CreateTable(t, c)
    \/ \E t \in TableNames, r \in {RowSmall1, RowSmall3, RowBig, RowHuge} : Insert(t, r)
    \/ \E t \in TableNames : InsertMany(t, <<RowBig, RowHuge, RowBig, RowSmall2>>)
    \/ \E t \in TableNames : SeqScan(t)
    \/ \E t \in TableNames, p \in Preds : DeleteRows(t, p)
    \/ \E t \in TableNames, s \in SetClauses, p \in Preds : UpdateRows(t, s, p)
    \/ Restart

Spec == Init /\ [][Next]_vars

----------------------------------------------------------------------------
(* Properties of the page operators (checked under Spec) *)

\* a sequence as a multiset: value -> number of occurrences
BagOf(seq) ==
    [v \in {seq[i] : i \in 1..Len(seq)} |-> Cardinality({i \in 1..Len(seq) : seq[i] = v})]

\* the values seq_scan returns in the current state
Scan(t) == ValuesOf(seq_scan(Eng, t).rows)

\* C1: after delete_rows(table, p) returns, seq_scan(table) returns no row that
\* satisfies p, and the returned count is the number of rows that were live
\* and matching before the call.
C1_DeleteRemovesMatching ==
    last.op = "delete_rows" =>
        /\ \A i \in 1..Len(Scan(last.table)) : ~Pred(last.arg, Scan(last.table)[i])
        /\ last.ret = Cardinality({i \in 1..Len(last.pre) : Pred(last.arg, last.pre[i])})

\* the values update_rows gives a row of the table
UpdatedValues(t, set_clauses, values) ==
    ApplySet(schema_cache[t], set_clauses, 1,
             [values |-> values, has_update |-> FALSE]).values

\* C2: after update_rows(table, set_clauses, p) whose reinserts the page all
\* admitted, seq_scan(table) returns the rows of before the call with every
\* matching row replaced by its updated version, and as many rows as before.
C2_UpdateReplacesMatching ==
    (/\ last.op = "update_rows"
     /\ last.table \in DOMAIN schema_cache
     /\ last.ret = Cardinality({i \in 1..Len(last.pre) : Pred(last.arg[2], last.pre[i])}))
    => /\ Len(Scan(last.table)) = Len(last.pre)
       /\ BagOf(Scan(last.table)) =
            BagOf([i \in 1..Len(last.pre) |->
                     IF Pred(last.arg[2], last.pre[i])
                     THEN UpdatedValues(last.table, last.arg[1], last.pre[i])
                     ELSE last.pre[i]])

WithKey(rows, pk, key) == SelectSeq(rows, LAMBDA r : r[pk + 1] = key)

\* C4: for every table with a primary-key column on which only insert has been
\* called in this engine lifetime, the primary index has one entry per distinct
\* pk value of the successfully inserted rows, and index_scan(pk) returns the
\* row inserted last with that pk.
C4_PrimaryIndexLastWriterWins ==
    \A t \in TableNames :
        (/\ t \in DOMAIN schema_cache
         /\ FirstPk(schema_cache[t].columns) >= 0
         /\ hist[t].life_only_ins)
        => LET pk == FirstPk(schema_cache[t].columns)
               rows == hist[t].life_ins
               keys == {rows[i][pk + 1] : i \in 1..Len(rows)}
           IN /\ get_index_size(Eng, t) = Cardinality(keys)
              /\ \A k \in keys :
                    index_get_row_values(Eng, t, k) =
                        <<WithKey(rows, pk, k)[Len(WithKey(rows, pk, k))]>>

\* C10: after a restart, get_table_schema(S.name) is S for every schema S that
\* register_table accepted (and no drop_table removed).
C10_CatalogRoundTrip ==
    last.op = "restart" =>
        \A t \in TableNames :
            hist[t].accepted # <<>> =>
                /\ t \in DOMAIN schema_cache
                /\ schema_cache[t] = hist[t].accepted[1]

----------------------------------------------------------------------------
(* The index operators: the same engine, driven with small rows, the         *)
(* composite index and DROP TABLE                                            *)

NextIndex ==
    \/ \E t \in TableNames, c \in {ColsPlain, ColsNoPk} : CreateTable(t, c)
    \/ \E t \in TableNames, r \in {RowSmall1, RowSmall2, Row10, RowEmpty} : Insert(t, r)
    \/ \E t \in TableNames, s \in SetClauses : UpdateRows(t, s, [col |-> 0, val |-> V1])
    \/ \E t \in TableNames, ix \in {<<1>>, <<1, 0>>} : EnableCompositeIndex(t, ix)
    \/ \E t \in TableNames : DropTable(t)
    \/ Restart

SpecIndex == Init /\ [][NextIndex]_vars

\* keys a caller may pass to the range scans
KeySamples == {<<>>, V1, V1 \o <<DIGIT0>>, V2, <<DIGIT0 + 3>>}

\* the primary index map of a table, empty without an enabled index
PrimaryMap(t) ==
    IF t \in DOMAIN primary_indexes /\ primary_indexes[t].enabled
    THEN primary_indexes[t].pk_to_row_values ELSE EmptyMap

\* C5: index_range_scan(table, a, b) returns exactly the primary-index entries
\* whose key k satisfies a <= k <= b in string order, in ascending key order;
\* nothing when a > b or when the table has no enabled primary index.
C5_IndexRangeExact ==
    \A t \in TableNames : \A a \in KeySamples, b \in KeySamples :
        LET res == index_range_row_values(Eng, t, a, b)
            m == PrimaryMap(t)
            pk == IF t \in DOMAIN primary_indexes THEN primary_indexes[t].pk_index ELSE 0
        IN /\ {res[i] : i \in 1..Len(res)}
                = {m[k] : k \in {x \in DOMAIN m : StrLeq(a, x) /\ StrLeq(x, b)}}
           /\ \A i \in 1..Len(res) : \A j \in 1..Len(res) :
                 i < j => StrLess(res[i][pk + 1], res[j][pk + 1])
           /\ StrLess(b, a) => res = <<>>
           /\ (t \notin DOMAIN primary_indexes \/ ~primary_indexes[t].enabled) => res = <<>>

\* C5 witness: three keys in the index, and the range ["1", "10"] returns the
\* rows of "1" and "10" in that order, leaving out "2"
C5_Witness ==
    /\ T \in DOMAIN primary_indexes
    /\ DOMAIN PrimaryMap(T) = {V1, V1 \o <<DIGIT0>>, V2}
    /\ index_range_row_values(Eng, T, V1, V1 \o <<DIGIT0>>) = <<RowSmall1, Row10>>

CKey(t, row_values) == ckey_of(composite_indexes[t].key_indices, row_values)

\* the primary keys whose row has composite key k
PksOfCKey(t, k) == {x \in DOMAIN PrimaryMap(t) : CKey(t, PrimaryMap(t)[x]) = k}

\* composite keys a caller may pass: those of the model's rows, and others
CKeySamples ==
    {<<>>, VA, VB, V1, VA \o <<UNIT_SEP>> \o V1, VA \o <<UNIT_SEP>> \o V2,
     <<UNIT_SEP>> \o V2, VB \o <<UNIT_SEP>> \o V1 \o <<DIGIT0>>}

\* C9: after enable_composite_index on a table populated via the primary
\* index, composite_index_range_scan(k, k) returns all rows of the primary
\* index whose composite key equals the (non-empty) key k, also when several
\* rows of different primary keys share k.
C9_CompositeScanAllRows ==
    (last.op = "enable_composite_index" /\ last.ret) =>
        \A k \in CKeySamples \ {<<>>} :
            LET res == composite_index_range_row_values(Eng, last.table, k, k)
            IN /\ {res[i] : i \in 1..Len(res)}
                    = {PrimaryMap(last.table)[x] : x \in PksOfCKey(last.table, k)}
               /\ Len(res) = Cardinality(PksOfCKey(last.table, k))

----------------------------------------------------------------------------
(* The MVCC primitives on the version chain of one (table, pk). The          *)
(* transactions T1 and T2 write their own version of the row of key "1";     *)
(* any transaction may read.                                                  *)

Writers == {"T1", "T2"}

Readers == {"T1", "T2", "T3"}

\* the version of the row that a writer inserts
RowOf(tx) == IF tx = "T1" THEN RowSmall1 ELSE RowSmall3

UnchangedEngine ==
    UNCHANGED <<schema_cache, catalog_page, page_cache, table_max_page_id, primary_indexes,
                composite_indexes, page_files, cidx_files, nops, hist>>

\* the version chain of (T, "1"), head first
Chain == IF <<T, V1>> \in DOMAIN mvcc_heads THEN mvcc_heads[<<T, V1>>] ELSE <<>>

MvccInsertUncommitted(tx) ==
    /\ Len(Chain) < MaxChain
    /\ LET r == mvcc_insert_uncommitted(mvcc_heads, T, RowOf(tx), tx, 0)
       IN /\ mvcc_heads' = r.heads
          /\ last' = [NoCall EXCEPT !.op = "mvcc_insert_uncommitted", !.table = T,
                                    !.ret = r.ok, !.arg = tx, !.pre = mvcc_heads]
    /\ UnchangedEngine

MvccCommitInsert(tx) ==
    /\ LET r == mvcc_commit_insert(mvcc_heads, T, V1, tx)
       IN /\ mvcc_heads' = r.heads
          /\ last' = [NoCall EXCEPT !.op = "mvcc_commit_insert", !.table = T,
                                    !.ret = r.ok, !.arg = tx]
    /\ UnchangedEngine

MvccRollbackInsert(tx) ==
    /\ LET r == mvcc_rollback_insert(mvcc_heads, T, V1, tx)
       IN /\ mvcc_heads' = r.heads
          /\ last' = [NoCall EXCEPT !.op = "mvcc_rollback_insert", !.table = T,
                                    !.ret = r.ok, !.arg = tx,
                                    !.pre = [heads |-> mvcc_heads,
                                             inserted |-> /\ last.op = "mvcc_insert_uncommitted"
                                                          /\ last.arg = tx /\ last.ret,
                                             before_insert |->
                                                 IF last.op = "mvcc_insert_uncommitted"
                                                 THEN last.pre ELSE EmptyMap]]
    /\ UnchangedEngine

MvccMarkDeleteCommit(tx) ==
    /\ LET r == mvcc_mark_delete_commit(mvcc_heads, T, V1, tx)
       IN /\ mvcc_heads' = r.heads
          /\ last' = [NoCall EXCEPT !.op = "mvcc_mark_delete_commit", !.table = T,
                                    !.ret = r.ok, !.arg = tx]
    /\ UnchangedEngine

NextMVCC ==
    \/ \E tx \in Writers : MvccInsertUncommitted(tx)
    \/ \E tx \in Writers : MvccCommitInsert(tx)
    \/ \E tx \in Writers : MvccRollbackInsert(tx)
    \/ \E tx \in Writers : MvccMarkDeleteCommit(tx)

SpecMVCC == Init /\ [][NextMVCC]_vars

\* what reader r with active set S is shown for key "1"
Lookup(r, S) == mvcc_lookup_visible(mvcc_heads, T, V1, r, S)

C7_DeleteMakesRowAbsent ==
    (/\ last.op = "mvcc_mark_delete_commit"
     /\ last.ret
     /\ \A i \in 1..Len(Chain) : Chain[i].committed)
        => \A r \in Readers : \A S \in SUBSET Writers : Lookup(r, S) = <<>>


----------------------------------------------------------------------------
(* DROP TABLE and repeated CREATE TABLE: the engine driven with rows that    *)
(* fill several pages, the composite index, and restarts                     *)

NextDrop ==
    \/ \E t \in TableNames \cup {<<>>}, c \in {ColsPlain, <<>>} : CreateTable(t, c)
    \/ \E t \in TableNames : Insert(t, RowSmall1)
    \/ \E t \in TableNames, b \in {<<RowBig, RowHuge, RowBig, RowSmall2>>,
                                     <<RowHuge, RowHuge, RowSmall2>>} : InsertMany(t, b)
    \/ \E t \in TableNames : EnableCompositeIndex(t, <<1>>)
    \/ \E t \in TableNames : DropTable(t)
    \/ Restart

SpecDrop == Init /\ [][NextDrop]_vars

\* the schemas a fresh SystemCatalog reads from the catalog page on disk
PersistedSchemas == SystemCatalog(page_files).schema_cache

\* C11: once drop_table(name) has returned true and the table has not been
\* created again, the catalog page on disk no longer holds its schema and a
\* freshly started engine does not know the table, also when it was the only
\* registered table.
C11_DropPersists ==
    \A t \in TableNames :
        hist[t].dropped =>
            /\ t \notin DOMAIN PersistedSchemas
            /\ (last.op = "restart" => t \notin DOMAIN schema_cache)


\* the composite-index files of a table: <name>.cidx.meta, .cidx.bin, .cidx.wal
CidxFilesOf(t) == {k \in DOMAIN cidx_files : k[1] = t}

\* C12: when drop_table(name) returns true the table has no composite index
\* any more: its key columns are empty, a composite range scan returns
\* nothing, and its meta, snapshot and log files are gone (so that no later
\* engine start can reload it).
C12_DropRemovesCompositeIndex ==
    \A t \in TableNames :
        (last.op = "drop_table" /\ last.table = t /\ last.ret = TRUE) =>
            /\ get_composite_index_columns(Eng, t) = <<>>
            /\ \A lo \in CKeySamples, hi \in CKeySamples :
                   composite_index_range_row_values(Eng, t, lo, hi) = <<>>
            /\ CidxFilesOf(t) = {}


\* the engine just after create_table(t, ColsPlain) in the current state
Recreated(t) == create_table(Eng, t, ColsPlain)

C19_RejectedCreateChangesNothing ==
    [][(/\ last'.op = "create_table"
        /\ \/ last'.table \in DOMAIN schema_cache
           \/ last'.table = <<>>
           \/ last'.arg = <<>>)
       => /\ last'.ret = FALSE
          /\ UNCHANGED <<schema_cache, catalog_page, page_files,
                         primary_indexes, composite_indexes, cidx_files>>]_vars

\* create_table was rejected for a registered table that has rows in its
\* primary index and an enabled composite index
C19_Witness ==
    /\ last.op = "create_table" /\ last.table = T /\ last.arg = ColsPlain
    /\ last.ret = FALSE
    /\ get_index_size(Eng, T) > 0
    /\ get_composite_index_columns(Eng, T) = <<1>>
    /\ hist[T].accepted = <<TableSchema(T, ColsPlain)>>


----------------------------------------------------------------------------
(* insert at the page boundary: rows that fill an empty page exactly, rows   *)
(* one byte longer, rows of the wrong arity                                  *)

\* the length of the second field of a two-field row <<V1, x>> whose record
\* (length prefix, tombstone byte, field count, two length-prefixed fields)
\* is exactly PAGE_SIZE bytes
FitLen == PAGE_SIZE - SIZE_T - (1 + SIZE_T) - (SIZE_T + Len(V1)) - SIZE_T

RowFit == <<V1, Rep(120, FitLen)>>

RowOver == <<V1, Rep(120, FitLen + 1)>>

RowShort == <<V1>>

NextInsert ==
    \/ \E t \in TableNames : CreateTable(t, ColsPlain)
    \/ \E t \in TableNames, r \in {RowSmall1, RowBig, RowFit, RowOver, RowShort} :
           Insert(t, r)
    \/ \E t \in TableNames : SeqScan(t)
    \/ Restart

SpecInsert == Init /\ [][NextInsert]_vars

\* a row fits an empty page: its serialization plus the length prefix is at
\* most PAGE_SIZE bytes
FitsEmptyPage(row_values) == Len(serialize(NewRow(row_values))) + SIZE_T <= PAGE_SIZE

----------------------------------------------------------------------------
(* One Page driven directly: insert_row and get_rows on the page object of   *)
(* page 1 of table T, starting from the empty page                           *)

\* the one-field row whose record (length prefix and serialization) takes
\* the k-th part of PAGE_SIZE - SIZE_T bytes
ShareRow(k) ==
    <<Rep(120, (PAGE_SIZE - SIZE_T) \div k - SIZE_T - (1 + SIZE_T) - SIZE_T)>>

PageRows == {<<>>, <<(<<>>)>>, RowSmall1, RowEmpty,
             ShareRow(1), ShareRow(2), ShareRow(3), RowFit}

\* the page object under test
ThePage == IF <<T, 1>> \in DOMAIN page_cache THEN page_cache[<<T, 1>>] ELSE NewPage(1)

PageInsertRow(row_values) ==
    /\ Len(hist[T].tried) < MaxRecords
    /\ LET r == insert_row(ThePage, NewRow(row_values))
       IN /\ page_cache' = Put(page_cache, <<T, 1>>, r.page)
          /\ last' = [NoCall EXCEPT !.op = "insert_row", !.table = T, !.ret = r.ok,
                                    !.arg = row_values,
                                    !.pre = FreePos(ThePage.data, 0)]
          /\ hist' = [hist EXCEPT ![T].tried = Append(@, row_values),
                                  ![T].ins = IF r.ok THEN Append(@, row_values) ELSE @]
    /\ UNCHANGED <<schema_cache, catalog_page, table_max_page_id, primary_indexes,
                   composite_indexes, mvcc_heads, page_files, cidx_files, nops>>

NextPage == \E r \in PageRows : PageInsertRow(r)

SpecPage == Init /\ [][NextPage]_vars

RECURSIVE RecordBytes(_, _)
\* the sum over rows i.. of len(serialize(row)) + sizeof(len)
RecordBytes(rows, i) ==
    IF i > Len(rows) THEN 0
    ELSE Len(serialize(NewRow(rows[i]))) + SIZE_T + RecordBytes(rows, i + 1)

\* C15: starting from the empty page, whenever the rows passed to insert_row
\* so far satisfy sum(len(serialize(r)) + sizeof(len)) <= PAGE_SIZE -
\* sizeof(len), every one of those calls succeeded and get_rows returns
\* exactly those rows in insertion order.
C15_PageCapacity ==
    LET rs == hist[T].tried
    IN RecordBytes(rs, 1) <= PAGE_SIZE - SIZE_T =>
           /\ hist[T].ins = rs
           /\ ValuesOf(get_rows(ThePage)) = rs


\* C16: records never straddle the page boundary: for every page reached by
\* insert_row calls, successful or not, the bytes insert_row wrote and every
\* byte range get_rows reads (each length prefix and the row_len bytes it
\* copies) lie within offsets 0..PAGE_SIZE - 1.
C16_RecordsWithinPage ==
    /\ (last.op = "insert_row" /\ last.ret = TRUE) =>
           /\ last.pre >= 0
           /\ last.pre + SIZE_T + Len(serialize(NewRow(last.arg))) <= PAGE_SIZE
    /\ \A rg \in CopyRanges(ThePage.data, 0) : rg[1] >= 0 /\ rg[2] <= PAGE_SIZE


----------------------------------------------------------------------------
(* The row codec driven directly: serialize and deserialize on rows and on   *)
(* truncated or corrupted buffers                                            *)

\* a field with a zero byte, a byte equal to a small length and a high byte
V0 == <<0, 1, 255>>

SmallCodecRows == {<<>>, <<(<<>>)>>, <<(<<>>), (<<>>)>>, RowSmall1, RowEmpty, <<V0, V1>>}

CodecRows == SmallCodecRows \cup {RowBig}

\* the buffers passed to deserialize: serializations, each of their proper
\* prefixes, and serializations whose field count or first field length has
\* been raised by one
CodecBuffers ==
    UNION {LET bin == serialize([values |-> v, is_deleted |-> d])
           IN {SubSeq(bin, 1, k) : k \in 0..Len(bin)}
              \cup {WriteAt(bin, 1, EncInt(Len(v) + 1, SIZE_T))}
              \cup (IF v = <<>> THEN {}
                    ELSE {WriteAt(bin, 1 + SIZE_T, EncInt(Len(v[1]) + 1, SIZE_T))})
           : v \in SmallCodecRows, d \in BOOLEAN}

\* deserialize indexes its buffer at or beyond data.size()
ReadsPastEnd(data) == deserialize(data) = OutOfRange

\* memory following the buffer that happens to hold zero bytes
ZeroPad == Rep(0, 8 * SIZE_T)

\* what a call of deserialize can produce: the row, when every read stays
\* within the buffer; otherwise the behaviour is undefined, and the call
\* either ends the process or builds a row from the bytes that follow the
\* buffer in memory
DeserializeOutcomes(data) ==
    IF ~ReadsPastEnd(data) THEN {[kind |-> "row", row |-> deserialize(data)]}
    ELSE {[kind |-> "crash", row |-> OutOfRange],
          [kind |-> "row", row |-> deserialize(data \o ZeroPad)]}

SerializeDeserialize(vals, deleted) ==
    /\ last' = [NoCall EXCEPT !.op = "serialize_deserialize",
                              !.arg = [values |-> vals, is_deleted |-> deleted],
                              !.ret = deserialize(serialize([values |-> vals,
                                                             is_deleted |-> deleted]))]
    /\ UNCHANGED <<schema_cache, catalog_page, page_cache, table_max_page_id,
                   primary_indexes, composite_indexes, mvcc_heads, page_files,
                   cidx_files, nops, hist>>

Deserialize(data) ==
    /\ \E out \in DeserializeOutcomes(data) :
           last' = [NoCall EXCEPT !.op = "deserialize", !.arg = data, !.ret = out,
                                  !.pre = ReadsPastEnd(data)]
    /\ UNCHANGED <<schema_cache, catalog_page, page_cache, table_max_page_id,
                   primary_indexes, composite_indexes, mvcc_heads, page_files,
                   cidx_files, nops, hist>>

NextCodec ==
    \/ \E v \in CodecRows, d \in BOOLEAN : SerializeDeserialize(v, d)
    \/ \E data \in CodecBuffers : Deserialize(data)

SpecCodec == Init /\ [][NextCodec]_vars

\* C17: deserialize(serialize(r)) = r for every row r: the same fields in the
\* same order, empty strings included, and the same tombstone flag.
C17_CodecRoundTrip ==
    last.op = "serialize_deserialize" => last.ret = last.arg

\* a tombstoned row with an empty field went through the codec unchanged
C17_Witness ==
    /\ last.op = "serialize_deserialize"
    /\ last.arg = [values |-> RowEmpty, is_deleted |-> TRUE]
    /\ last.ret = [values |-> RowEmpty, is_deleted |-> TRUE]

\* C18: deserialize never reads past the buffer it is given; for a truncated
\* buffer, or one whose field count or field length points beyond its end,
\* it fails with a malformed-row outcome.
C18_DeserializeStaysInBuffer ==
    last.op = "deserialize" =>
        /\ ~last.pre
        /\ (deserialize(last.arg) = OutOfRange => last.ret.kind = "malformed")


----------------------------------------------------------------------------
(* The joins: two tables with different column orders, filled by batches     *)
(* with duplicate values in both columns                                     *)

\* u(name STRING PK, id INT): the columns of t in the other order
ColsUsers == <<Column(S_name, "STRING", TRUE), Column(S_id, "INT", FALSE)>>

JoinBatches == {<<RowSmall1, RowSmall2, RowSmall3>>, <<RowSmall1, RowSmall1, Row10>>}

\* the (left_col, right_col) pairs a caller passes; "a:b" is no column
JoinColumns == {<<S_id, S_id>>, <<S_name, S_id>>, <<S_id, S_a_b>>}

JoinTables == {<<T, U>>, <<T, T>>}

InnerJoin(lt, rt, lc, rc) ==
    /\ LET r == inner_join(Eng, lt, rt, lc, rc)
       IN /\ SetEng(r.e)
          /\ last' = [NoCall EXCEPT !.op = "inner_join", !.table = lt,
                                    !.arg = <<rt, lc, rc>>, !.ret = r.rows]
    /\ UNCHANGED <<mvcc_heads, hist, nops>>

MergeJoin(lt, rt, lc, rc, after_equal) ==
    /\ LET r == merge_join(Eng, lt, rt, lc, rc, after_equal)
       IN /\ SetEng(r.e)
          /\ last' = [NoCall EXCEPT !.op = "merge_join", !.table = lt,
                                    !.arg = <<rt, lc, rc>>, !.ret = r.rows]
    /\ UNCHANGED <<mvcc_heads, hist, nops>>

NextJoin ==
    \/ CreateTable(T, ColsPlain)
    \/ CreateTable(U, ColsUsers)
    \/ \E t \in AllTables, b \in JoinBatches : InsertMany(t, b)
    \/ \E tt \in JoinTables, cc \in JoinColumns : InnerJoin(tt[1], tt[2], cc[1], cc[2])
    \/ \E tt \in JoinTables, cc \in JoinColumns, ae \in BOOLEAN :
           MergeJoin(tt[1], tt[2], cc[1], cc[2], ae)

SpecJoin == Init /\ [][NextJoin]_vars

\* C20: on the same two existing tables and join columns, merge_join and
\* inner_join return the same multiset of joined rows (the fields of the left
\* row followed by those of the right row), also when a join key occurs
\* several times on both sides.
C20_MergeJoinEqualsInnerJoin ==
    /\ last.op = "inner_join" =>
           \A ae \in BOOLEAN :
               BagOf(merge_join(Eng, last.table, last.arg[1], last.arg[2],
                                last.arg[3], ae).rows) = BagOf(last.ret)
    /\ last.op = "merge_join" =>
           BagOf(inner_join(Eng, last.table, last.arg[1], last.arg[2],
                            last.arg[3]).rows) = BagOf(last.ret)

\* merge_join of t and u on name returned at least four rows for the key "A",
\* which two rows of each table hold, in another order than inner_join does
C20_Witness ==
    /\ last.op = "merge_join" /\ last.table = T
    /\ last.arg = <<U, S_name, S_id>>
    /\ Cardinality({i \in 1..Len(last.ret) : last.ret[i][2] = VA /\ last.ret[i][4] = VA}) >= 4
    /\ last.ret # inner_join(Eng, T, U, S_name, S_id).rows
    /\ BagOf(last.ret) = BagOf(inner_join(Eng, T, U, S_name, S_id).rows)


----------------------------------------------------------------------------
(* Further properties of the index operators (checked under SpecIndex)       *)

\* the composite index with a process that stops while the log is written
NextWal ==
    \/ \E t \in TableNames : CreateTable(t, ColsPlain)
    \/ \E t \in TableNames, r \in {RowSmall1, RowSmall2, Row10} : Insert(t, r)
    \/ \E t \in TableNames, ix \in {<<1>>, <<1, 0>>} : EnableCompositeIndex(t, ix)
    \/ Restart
    \/ \E t \in TableNames, cut \in 0..MaxRecordLen : TornRestart(t, cut)
    \/ \E t \in TableNames, p \in Preds : DeleteRows(t, p)

SpecWal == Init /\ [][NextWal]_vars

\* C21: every entry of an enabled composite index has as key the values of
\* the index's columns of its row, joined by 0x1F in declared order, and no
\* entry belongs to a row in which a participating column is out of range or
\* holds the empty string (such rows are skipped by back-fill and by insert
\* maintenance).
C21_CompositeEntriesWellFormed ==
    \A t \in DOMAIN composite_indexes :
        composite_indexes[t].enabled =>
            LET info == composite_indexes[t]
            IN \A k \in DOMAIN info.key_to_row_values :
                   LET row_values == info.key_to_row_values[k]
                   IN /\ k = CompositeKey(info.key_indices, row_values, 1)
                      /\ \A i \in 1..Len(info.key_indices) :
                             /\ info.key_indices[i] < Len(row_values)
                             /\ row_values[info.key_indices[i] + 1] # <<>>


\* C22: when the log is cut at a byte offset inside its last record, the
\* engine that starts afterwards holds the composite index that the snapshot
\* and the complete records before that record give, applied in order as
\* upserts; no part of the cut record is applied.
C22_TornTailDiscarded ==
    last.op = "torn_restart" =>
        \A t \in TableNames :
            IF t \in DOMAIN last.pre
            THEN /\ t \in DOMAIN composite_indexes
                 /\ composite_indexes[t] = last.pre[t]
            ELSE t \notin DOMAIN composite_indexes

\* a log of two records was cut behind the first field of its second record:
\* the index holds the row of the first record only
C22_Witness ==
    /\ last.op = "torn_restart" /\ last.table = T
    /\ last.ret > 0
    /\ last.arg > 2 * U32 + 1 + U32
    /\ T \in DOMAIN composite_indexes
    /\ composite_indexes[T].key_indices = <<1>>
    /\ composite_indexes[T].key_to_row_values = [k \in {VA} |-> RowSmall1]

\* C23: delete_rows leaves the primary index and the composite index (the map
\* in memory, the snapshot file and the log file) as they were, so index_scan
\* and composite_index_range_scan answer after it as they did before it.
C23_DeleteKeepsIndexes ==
    [][last'.op = "delete_rows" =>
          /\ UNCHANGED <<primary_indexes, composite_indexes, cidx_files>>
          /\ \A k \in {V1, V2} :
                 index_get_row_values(Eng', last'.table, k)
                     = index_get_row_values(Eng, last'.table, k)
          /\ composite_index_range_row_values(Eng', last'.table, <<>>, VB)
                 = composite_index_range_row_values(Eng, last'.table, <<>>, VB)]_vars

\* a delete that removed a row of a table whose two indexes hold that row
C23_Witness ==
    /\ last.op = "delete_rows" /\ last.table = T /\ last.ret = 1
    /\ index_get_row_values(Eng, T, V1) = <<RowSmall1>>
    /\ composite_index_range_row_values(Eng, T, <<>>, VB) = <<RowSmall1>>
    /\ <<T, "wal">> \in DOMAIN cidx_files /\ cidx_files[<<T, "wal">>] # <<>>

----------------------------------------------------------------------------
(* Further properties of the MVCC primitives (checked under SpecMVCC)        *)

\* the chain of (T, "1") in a map of heads
ChainIn(heads) == IF <<T, V1>> \in DOMAIN heads THEN heads[<<T, V1>>] ELSE <<>>

\* C24: mvcc_commit_insert(table, pk, tx) returns true and sets committed on the
\* head exactly when the head of the chain is uncommitted with xmin = tx; when
\* there is no chain, the chain is empty, the head is committed or the head is
\* another transaction's, it returns false and no version node changes.
C24_CommitOnlyOwnUncommittedHead ==
    [][last'.op = "mvcc_commit_insert" =>
          LET own == /\ Chain # <<>>
                     /\ ~Chain[1].committed
                     /\ Chain[1].xmin = last'.arg
          IN /\ last'.ret <=> own
             /\ own => /\ Len(Chain') = Len(Chain)
                       /\ Chain'[1] = [Chain[1] EXCEPT !.committed = TRUE]
                       /\ \A i \in 2..Len(Chain) : Chain'[i] = Chain[i]
             /\ ~own => mvcc_heads' = mvcc_heads]_vars

\* a commit that T2 tried on T1's uncommitted version, which lies on top of a
\* committed one: refused
C24_Witness ==
    /\ last.op = "mvcc_commit_insert" /\ last.arg = "T2" /\ ~last.ret
    /\ Len(Chain) = 2
    /\ Chain[1].xmin = "T1" /\ ~Chain[1].committed
    /\ Chain[2].committed

\* C25: mvcc_insert_uncommitted(table, row, tx, i) followed at once by
\* mvcc_rollback_insert(table, row[i], tx) gives every reader, under every
\* active set, what it was shown before the insert; and a rollback that finds
\* the head committed or owned by another transaction returns false and leaves
\* the chain as it was.
C25_RollbackUndoesInsert ==
    last.op = "mvcc_rollback_insert" =>
        /\ last.pre.inserted =>
              /\ last.ret
              /\ \A r \in Readers : \A S \in SUBSET Writers :
                     Lookup(r, S) = mvcc_lookup_visible(last.pre.before_insert, T, V1, r, S)
        /\ LET before == ChainIn(last.pre.heads)
           IN (before # <<>> /\ (before[1].committed \/ before[1].xmin # last.arg))
                  => (~last.ret /\ mvcc_heads = last.pre.heads)

\* T2 inserted on top of T1's committed version and rolled back at once: the
\* readers are shown T1's version again
C25_Witness ==
    /\ last.op = "mvcc_rollback_insert" /\ last.arg = "T2" /\ last.ret
    /\ last.pre.inserted
    /\ Len(ChainIn(last.pre.heads)) = 2
    /\ Len(Chain) = 1 /\ Chain[1].committed /\ Chain[1].xmin = "T1"
    /\ Lookup("T3", {}) = <<RowSmall1>>

\* node i of the chain may be shown to reader r under active set S
Qualifies(i, r, S) ==
    \/ ~Chain[i].committed /\ Chain[i].xmin = r
    \/ Chain[i].committed /\ Chain[i].xmax = <<>> /\ Chain[i].xmin \notin S

\* C26: mvcc_lookup_visible returns the values of the first node, head to tail,
\* that is uncommitted with xmin = reader or committed with xmax unset and xmin
\* outside the active set; a reader with the writer of the newest committed
\* version in its active set is shown the next older such node; the answer is
\* not-visible only when no node is such.
C26_LookupReturnsNewestQualifying ==
    \A r \in Readers : \A S \in SUBSET Writers :
        LET Q == {i \in 1..Len(Chain) : Qualifies(i, r, S)}
        IN /\ Lookup(r, S) = <<>> <=> Q = {}
           /\ Q # {} => \E i \in Q : /\ \A j \in Q : i <= j
                                     /\ Lookup(r, S) = <<Chain[i].values>>

\* T1's uncommitted version on T2's committed one on T1's committed one: T1 is
\* shown its own, a reader with T2 active the oldest, a reader with nobody
\* active T2's, a reader with both active nothing
C26_Witness ==
    /\ Len(Chain) = 3
    /\ ~Chain[1].committed /\ Chain[1].xmin = "T1"
    /\ Chain[2].committed /\ Chain[2].xmin = "T2" /\ Chain[2].xmax = <<>>
    /\ Chain[3].committed /\ Chain[3].xmin = "T1" /\ Chain[3].xmax = <<>>
    /\ LookupPos(Chain, "T1", {"T2"}) = 1
    /\ Lookup("T3", {"T2"}) = <<RowSmall1>>
    /\ Lookup("T3", {}) = <<RowSmall3>>
    /\ Lookup("T3", {"T1", "T2"}) = <<>>

----------------------------------------------------------------------------
(* The page that insert chooses: rows of several sizes, the composite index  *)
(* on the first column, and restarts                                         *)

\* a row that takes about three quarters of a page
RowWide == <<V2, Rep(120, BigLen + BigLen \div 2)>>

NextPlace ==
    \/ \E t \in TableNames : CreateTable(t, ColsPlain)
    \/ \E t \in TableNames, r \in {RowSmall1, RowBig, RowWide, RowFit, RowOver} :
           Insert(t, r)
    \/ \E t \in TableNames : EnableCompositeIndex(t, <<0>>)
    \/ \E t \in TableNames, sc \in SetClauses : UpdateRows(t, sc, [col |-> 0, val |-> V1])
    \/ Restart

SpecPlace == Init /\ [][NextPlace]_vars

\* the pages 1..max_id of table t that exist and admit the row
Admitting(t, row_values) ==
    LET mx == get_table_max_page_id(Eng, t)
    IN {p \in 1..mx.max_id :
           LET g == get_page(mx.e, t, p)
           IN g.found /\ insert_row(g.e.page_cache[<<t, p>>], NewRow(row_values)).ok}

\* C27: a successful insert puts the row into the highest-numbered existing
\* page, of max id down to 1, whose insert_row accepts it, and into a new page
\* max id + 1 only when no existing page accepts it; it raises the max page id
\* by at most 1, changes no other page file, and updates the primary index
\* (and the composite index, when enabled) exactly once.
C27_InsertPlacement ==
    [][(last'.op = "insert" /\ last'.ret) =>
          LET t == last'.table
              row_values == last'.arg
              mx == get_table_max_page_id(Eng, t)
              A == Admitting(t, row_values)
              target == IF A = {} THEN mx.max_id + 1
                        ELSE CHOOSE p \in A : \A q \in A : q <= p
              old == IF A = {} THEN NewPage(target)
                     ELSE get_page(mx.e, t, target).e.page_cache[<<t, target>>]
              ix == insert_index_row(Eng, t, row_values)
          IN /\ table_max_page_id'[t] = (IF A = {} THEN mx.max_id + 1 ELSE mx.max_id)
             /\ page_cache'[<<t, target>>].data = insert_row(old, NewRow(row_values)).page.data
             /\ page_files'[<<t, target>>] = page_cache'[<<t, target>>].data
             /\ \A k \in (DOMAIN page_files \cup DOMAIN page_files') \ {<<t, target>>} :
                    /\ k \in DOMAIN page_files /\ k \in DOMAIN page_files'
                    /\ page_files'[k] = page_files[k]
             /\ primary_indexes' = ix.primary_indexes
             /\ composite_indexes' = ix.composite_indexes
             /\ cidx_files' = ix.cidx_files]_vars

\* a small row went into page 2 of 2 while page 1 had room for it too, and the
\* primary index holds it
C27_Witness ==
    /\ last.op = "insert" /\ last.table = T /\ last.arg = RowSmall1 /\ last.ret
    /\ T \in DOMAIN table_max_page_id /\ table_max_page_id[T] = 2
    /\ insert_row(page_cache[<<T, 1>>], NewRow(RowSmall1)).ok
    /\ ValuesOf(get_rows(page_cache[<<T, 1>>])) = <<RowBig>>
    /\ ValuesOf(get_rows(page_cache[<<T, 2>>])) = <<RowWide, RowSmall1>>
    /\ index_get_row_values(Eng, T, V1) = <<RowSmall1>>

\* the new rows that update_rows(t, set_clauses, p) builds for live rows that
\* match p, and for which the page of the old row has no room
Rejected(t, set_clauses, p) ==
    IF t \notin DOMAIN schema_cache THEN {}
    ELSE LET mx == get_table_max_page_id(Eng, t)
             NewOn(page_id) ==
                 LET g == get_page(mx.e, t, page_id)
                 IN IF ~g.found THEN {}
                    ELSE LET page == g.e.page_cache[<<t, page_id>>]
                             rows == get_rows(page)
                             M == {i \in 1..Len(rows) :
                                      Pred(p, rows[i].values) /\ ~rows[i].is_deleted}
                             N == {ApplySet(schema_cache[t], set_clauses, 1,
                                            [values |-> rows[i].values,
                                             has_update |-> FALSE]) : i \in M}
                         IN {a.values : a \in {x \in N :
                                /\ x.has_update
                                /\ ~insert_row(page, NewRow(x.values)).ok}}
         IN UNION {NewOn(k) : k \in 1..mx.max_id}

\* C28 as stated: when the page rejects the reinsert of an updated row because
\* it is full, the primary index still holds, after update_rows, the updated
\* values under that row's key.
C28_IndexUpsertedOnRejectedReinsert ==
    [][last'.op = "update_rows" =>
          \A v \in Rejected(last'.table, last'.arg[1], last'.arg[2]) :
              index_get_row_values(Eng', last'.table, v[1]) = <<v>>]_vars

\* C28 amended: when the page rejects the reinsert of an updated row,
\* update_rows does not call insert_index_row for it and does not count it: a
\* call whose every reinsert is rejected returns 0 and leaves the primary
\* index, the composite index and its files as they were.
C28_IndexKeptOnRejectedReinsert ==
    [][(/\ last'.op = "update_rows"
        /\ Rejected(last'.table, last'.arg[1], last'.arg[2]) # {}
        /\ last'.ret = 0) =>
          /\ UNCHANGED <<primary_indexes, composite_indexes, cidx_files>>
          /\ \A v \in Rejected(last'.table, last'.arg[1], last'.arg[2]) :
                 index_get_row_values(Eng', last'.table, v[1]) # <<v>>]_vars

\* the only row of a full page was to get a new name: the page had no room,
\* the call returned 0 and the primary index shows the row as inserted
C28_Witness ==
    /\ last.op = "update_rows" /\ last.table = T /\ last.ret = 0
    /\ last.arg[1] = <<(<<S_name, VB>>)>>
    /\ last.pre = <<RowFit>>
    /\ ~insert_row(page_cache[<<T, 1>>], NewRow(<<V1, VB>>)).ok
    /\ index_get_row_values(Eng, T, V1) = <<RowFit>>

----------------------------------------------------------------------------
(* GROUP BY: group_by called with no aggregate functions, on rows whose      *)
(* values may hold the byte '|' (124)                                        *)

RECURSIVE GroupKey(_, _, _)
\* the key loop of group_by: the values of the group columns with '|' between
\* them; a column index beyond the row adds nothing
GroupKey(vals, group_indices, i) ==
    IF i > Len(group_indices) THEN <<>>
    ELSE (IF i > 1 THEN <<124>> ELSE <<>>)
         \o (IF group_indices[i] < Len(vals) THEN vals[group_indices[i] + 1] ELSE <<>>)
         \o GroupKey(vals, group_indices, i + 1)

RECURSIVE KeyParts(_, _, _, _)
\* the loop that splits a map key at '|' into one part per group column:
\* [threw, parts]; substr throws std::out_of_range for pos beyond the key
KeyParts(key, n, pos, parts) ==
    IF Len(parts) = n THEN [threw |-> FALSE, parts |-> parts]
    ELSE IF pos > Len(key) THEN [threw |-> TRUE, parts |-> parts]
    ELSE LET f == Find(key, 124, pos)
             next_pos == IF f = -1 THEN Len(key) ELSE f
         IN KeyParts(key, n, next_pos + 1, Append(parts, SubSeq(key, pos + 1, next_pos)))

\* ExecutionEngine::group_by with agg_functions empty: [threw, result, e]; a
\* result holds group_keys and, for reference, the values of the rows of its
\* bucket (group.second) in scan order
group_by(e, table_name, group_columns) ==
    LET sc == seq_scan(e, table_name)
        rows == ValuesOf(sc.rows)
        found == [i \in 1..Len(group_columns) |->
                     get_column_index(sc.e.schema_cache, table_name, group_columns[i])]
        group_indices == SelectSeq(found, LAMBDA x : x >= 0)
        groups == SortedKeys({GroupKey(rows[i], group_indices, 1) : i \in 1..Len(rows)})
        parts == [k \in 1..Len(groups) |-> KeyParts(groups[k], Len(group_columns), 0, <<>>)]
    IN IF rows = <<>> THEN [threw |-> FALSE, result |-> <<>>, e |-> sc.e]
       ELSE IF \E k \in 1..Len(groups) : parts[k].threw
       THEN [threw |-> TRUE, result |-> <<>>, e |-> sc.e]
       ELSE [threw |-> FALSE,
             result |-> [k \in 1..Len(groups) |->
                            [group_keys |-> parts[k].parts,
                             rows |-> SelectSeq(rows, LAMBDA v :
                                          GroupKey(v, group_indices, 1) = groups[k])]],
             e |-> sc.e]

GroupBy(t, group_columns) ==
    /\ nops < MaxOps
    /\ LET r == group_by(Eng, t, group_columns)
       IN /\ SetEng(r.e)
          /\ last' = [NoCall EXCEPT !.op = "group_by", !.table = t, !.arg = group_columns,
                                    !.ret = IF r.threw THEN "out_of_range" ELSE "returned",
                                    !.pre = r.result]
    /\ nops' = nops + 1
    /\ UNCHANGED <<mvcc_heads, hist>>

\* ("a|b", "c") and ("a", "b|c")
RowPipe1 == <<(<<97, 124, 98>>), <<99>>>>

RowPipe2 == <<(<<97>>), <<98, 124, 99>>>>

\* ("a", "c")
RowPipe3 == <<(<<97>>), <<99>>>>

GroupColumns == {<<S_id>>, <<S_name>>, <<S_id, S_name>>, <<S_name, S_a_b>>}

NextGroup ==
    \/ \E t \in TableNames : CreateTable(t, ColsNoPk)
    \/ \E t \in TableNames, r \in {RowSmall1, RowSmall3, RowPipe1, RowPipe2, RowPipe3} :
           Insert(t, r)
    \/ \E t \in TableNames, g \in GroupColumns : GroupBy(t, g)

SpecGroup == Init /\ [][NextGroup]_vars

\* the values of the columns named by group_columns in a row of table t
GroupTuple(t, group_columns, vals) ==
    [i \in 1..Len(group_columns) |->
        vals[get_column_index(schema_cache, t, group_columns[i]) + 1]]

\* C29: group_by buckets the rows by the tuple of their group-column values:
\* two live rows are in the same result bucket exactly when they agree on
\* every group column, and the group key tuple of each result is that tuple,
\* whatever bytes the values hold ('|' included).
C29_GroupByBucketsByTuple ==
    (/\ last.op = "group_by" /\ last.ret = "returned"
     /\ \A i \in 1..Len(last.arg) :
            get_column_index(schema_cache, last.table, last.arg[i]) >= 0) =>
        LET result == last.pre
            rows == ValuesOf(seq_scan(Eng, last.table).rows)
            tuple(v) == GroupTuple(last.table, last.arg, v)
        IN /\ \A i, j \in 1..Len(rows) :
                  (\E k \in 1..Len(result) :
                       /\ \E x \in 1..Len(result[k].rows) : result[k].rows[x] = rows[i]
                       /\ \E x \in 1..Len(result[k].rows) : result[k].rows[x] = rows[j])
                  <=> tuple(rows[i]) = tuple(rows[j])
           /\ \A k \in 1..Len(result) : \A x \in 1..Len(result[k].rows) :
                  result[k].group_keys = tuple(result[k].rows[x])

----------------------------------------------------------------------------
(* The primary index across engine starts (checked under SpecIndex)          *)

\* C30: after a restart the primary index agrees with the data pages: for
\* every table with a primary-key column and every live row in its pages,
\* index_scan of the row's key on the fresh engine returns that row.
C30_PrimaryIndexRebuiltOnStart ==
    last.op = "restart" =>
        \A t \in TableNames :
            (t \in DOMAIN schema_cache /\ FirstPk(schema_cache[t].columns) >= 0) =>
                LET pk == FirstPk(schema_cache[t].columns)
                    rows == ValuesOf(seq_scan(Eng, t).rows)
                IN \A i \in 1..Len(rows) :
                       pk < Len(rows[i]) =>
                           index_get_row_values(Eng, t, rows[i][pk + 1]) = <<rows[i]>>

----------------------------------------------------------------------------
(* Inserts that fail, and engine starts (checked under SpecDrop and          *)
(* SpecPlace)                                                                *)

\* C31: rows are durable across a restart: after any sequence of insert calls
\* on a table, accepted or rejected for size, the engine started afresh in the
\* same directory returns from seq_scan the same multiset of rows as seq_scan
\* did just before the restart; no written page is out of reach because the
\* file of a lower-numbered page is missing.
C31_RowsSurviveRestart ==
    [][last'.op = "restart" =>
          \A t \in TableNames :
              (t \in DOMAIN schema_cache /\ ~hist[t].dropped) =>
                  /\ BagOf(ValuesOf(seq_scan(Eng', t).rows))
                         = BagOf(ValuesOf(seq_scan(Eng, t).rows))
                  /\ \A k \in DOMAIN page_files :
                         k[1] = t => \A j \in 1..k[2] : <<t, j>> \in DOMAIN page_files]_vars

\* C32: an insert that returns false leaves the engine as it was: the page
\* cache, the max page id of the table, the page files, the primary index and
\* the composite index are the same after the call as before it.
C32_FailedInsertChangesNothing ==
    [][(last'.op = "insert" /\ ~last'.ret) =>
          UNCHANGED <<page_cache, table_max_page_id, page_files, primary_indexes,
                      composite_indexes>>]_vars

\* C33: when create_table returns false because the catalog page has no room
\* for the schema row, the table is not registered: get_table_schema(name)
\* stays absent, an insert into that name fails, and the catalog in memory is
\* still what a fresh engine would load from the catalog page.
C33_RejectedSchemaNotRegistered ==
    [][(/\ last'.op = "create_table" /\ ~last'.ret
        /\ last'.table # <<>> /\ last'.arg # <<>>
        /\ last'.table \notin DOMAIN schema_cache) =>
          /\ last'.table \notin DOMAIN schema_cache'
          /\ \A r \in {RowSmall1, RowBig} : ~insert(Eng', last'.table, r).ok
          /\ schema_cache' = SystemCatalog(page_files').schema_cache]_vars

----------------------------------------------------------------------------
(* Interleaved transactions on one version chain (checked under SpecMVCC)    *)

RECURSIVE OwnRollbacks(_, _, _)
\* the heads after transaction tx has called mvcc_rollback_insert k times
OwnRollbacks(heads, tx, k) ==
    IF k = 0 THEN heads
    ELSE OwnRollbacks(mvcc_rollback_insert(heads, T, V1, tx).heads, tx, k - 1)

\* C34: under every interleaving, a transaction that holds an uncommitted
\* version in the chain can complete it without another transaction rolling
\* back first: once it has rolled back what it put on top itself, its
\* mvcc_commit_insert (or mvcc_rollback_insert) on that version succeeds; no
\* uncommitted version is stranded beneath a newer version.
C34_UncommittedVersionCompletable ==
    \A i \in 1..Len(Chain) :
        ~Chain[i].committed =>
            LET tx == Chain[i].xmin
                h == OwnRollbacks(mvcc_heads, tx, i - 1)
            IN /\ Len(ChainIn(h)) = Len(Chain) - (i - 1)
               /\ mvcc_commit_insert(h, T, V1, tx).ok
               /\ mvcc_rollback_insert(h, T, V1, tx).ok

\* the node that lies k-th from the tail of a chain
FromTail(chain, k) == chain[Len(chain) - k + 1]

\* C35: the metadata of a version node only moves forward under every MVCC
\* operation: a committed node is never uncommitted nor unlinked, xmin and
\* values of a node never change, and an xmax once set is neither cleared nor
\* overwritten by a later mvcc_mark_delete_commit.
C35_VersionMetadataMonotonic ==
    [][/\ \A k \in 1..Len(Chain) :
              FromTail(Chain, k).committed =>
                  /\ k <= Len(Chain')
                  /\ FromTail(Chain', k).committed
       /\ \A k \in 1..Len(Chain) :
              k <= Len(Chain') =>
                  /\ FromTail(Chain', k).xmin = FromTail(Chain, k).xmin
                  /\ FromTail(Chain', k).values = FromTail(Chain, k).values
                  /\ FromTail(Chain, k).xmax # <<>> =>
                         FromTail(Chain', k).xmax = FromTail(Chain, k).xmax]_vars

\* T2 marked the key deleted after T1 had: T1's mark stays on the newer
\* version, T2's went to the older one
C35_Witness ==
    /\ last.op = "mvcc_mark_delete_commit" /\ last.arg = "T2" /\ last.ret
    /\ Len(Chain) = 2
    /\ Chain[1].committed /\ Chain[1].xmax = <<"T1">>
    /\ Chain[2].committed /\ Chain[2].xmax = <<"T2">>

----------------------------------------------------------------------------
(* The composite-index files after a stop in mid-write (checked under        *)
(* SpecWal)                                                                  *)

\* the composite indexes that an engine started now would recover
Recovered == StorageEngine(page_files, cidx_files).composite_indexes

\* C36: every composite-index upsert whose WAL append completed is recovered
\* by the next engine start, also in a history of inserts, a stop that leaves
\* a partial record at the end of the WAL, a restart, and further inserts:
\* the records appended after the restart that found the torn tail are
\* replayed.
C36_AppendsAfterTornTailRecovered ==
    \A t \in TableNames :
        (/\ last.op = "insert" /\ last.table = t /\ last.ret
         /\ t \in DOMAIN composite_indexes
         /\ composite_indexes[t].enabled
         /\ ~hist[t].cidx_clean) =>
            LET key == ckey_of(composite_indexes[t].key_indices, last.arg)
            IN key # <<>> =>
                   /\ t \in DOMAIN Recovered
                   /\ key \in DOMAIN Recovered[t].key_to_row_values
                   /\ Recovered[t].key_to_row_values[key] = last.arg

\* the composite-index files when rebuild_and_save_composite_index stops after
\* the first steps of its three file steps: the snapshot written, the WAL
\* removed, the meta file written
rebuild_and_save_stopped(e, table_name, steps) ==
    LET info == e.composite_indexes[table_name]
        filled ==
            IF table_name \in DOMAIN e.primary_indexes
               /\ e.primary_indexes[table_name].enabled
            THEN LET pm == e.primary_indexes[table_name].pk_to_row_values
                 IN BackFill(pm, SortedKeys(DOMAIN pm), 1, info.key_indices, EmptyMap)
            ELSE EmptyMap
        snap == SnapshotBytes(filled, SortedKeys(DOMAIN filled), 1)
        f1 == Put(e.cidx_files, <<table_name, "bin">>, snap)
        f2 == Del(f1, <<table_name, "wal">>)
        f3 == Put(f2, <<table_name, "meta">>, MetaText(info.key_indices, 1))
    IN IF steps = 1 THEN f1 ELSE IF steps = 2 THEN f2 ELSE f3

\* enable_composite_index(t, indices) with the process stopping after the
\* given number of file steps, and the engine started again
EnableCompositeIndexStopped(t, indices, steps) ==
    /\ nops <= MaxOps
    /\ indices # <<>>
    /\ LET info == [enabled |-> TRUE, key_indices |-> indices,
                    key_to_row_values |-> EmptyMap]
           e1 == [Eng EXCEPT !.composite_indexes = Put(composite_indexes, t, info)]
       IN SetEng(StorageEngine(page_files, rebuild_and_save_stopped(e1, t, steps)))
    /\ last' = [NoCall EXCEPT !.op = "enable_composite_index_stopped", !.table = t,
                              !.arg = indices, !.ret = steps,
                              !.pre = get_composite_index_columns(Eng, t)]
    /\ mvcc_heads' = EmptyMap
    /\ hist' = [x \in AllTables |-> [hist[x] EXCEPT !.pristine = FALSE, !.life_ins = <<>>,
                                     !.life_only_ins = TRUE, !.cidx_clean = FALSE]]
    /\ UNCHANGED nops

NextStop ==
    \/ \E t \in TableNames : CreateTable(t, ColsPlain)
    \/ \E t \in TableNames, r \in {RowSmall1, RowSmall2, Row10} : Insert(t, r)
    \/ \E t \in TableNames, ix \in {<<1>>, <<1, 0>>} : EnableCompositeIndex(t, ix)
    \/ \E t \in TableNames, ix \in {<<1>>, <<1, 0>>}, steps \in 1..3 :
           EnableCompositeIndexStopped(t, ix, steps)

SpecStop == Init /\ [][NextStop]_vars

\* C37: enable_composite_index is crash-consistent: when the process stops
\* after any of its three file steps while an index on other columns is being
\* replaced, every key of the index recovered at the next start is computed
\* from the column indices that the meta file records.
C37_EnableCrashConsistent ==
    \A t \in TableNames :
        (/\ last.op = "enable_composite_index_stopped" /\ last.table = t
         /\ last.pre # <<>> /\ last.pre # last.arg
         /\ t \in DOMAIN composite_indexes) =>
            LET info == composite_indexes[t]
            IN /\ info.key_indices = ParseMeta(cidx_files[<<t, "meta">>], 0, <<>>)
               /\ \A k \in DOMAIN info.key_to_row_values :
                      k = CompositeKey(info.key_indices, info.key_to_row_values[k], 1)

----------------------------------------------------------------------------
(* DROP TABLE beside a second table: tables T and U, schemas of which two    *)
(* do not fit the catalog page together                                      *)

\* t(id INT PK, <a name of n bytes> STRING)
ColsWide(n) == <<Column(S_id, "INT", TRUE), Column(Rep(120, n), "STRING", FALSE)>>

NextOther ==
    \/ \E c \in {ColsPlain, ColsWide(BigLen)} : CreateTable(T, c)
    \/ \E c \in {ColsPlain, ColsWide(BigLen + BigLen \div 2)} : CreateTable(U, c)
    \/ \E t \in AllTables : Insert(t, RowSmall1)
    \/ EnableCompositeIndex(U, <<1>>)
    \/ \E t \in AllTables : DropTable(t)
    \/ Restart

SpecOther == Init /\ [][NextOther]_vars

\* what a map from table names holds for table u
At(m, u) == IF u \in DOMAIN m THEN <<m[u]>> ELSE <<>>

\* the part of a map from (table, x) that belongs to table u
Of(m, u) == [k \in {x \in DOMAIN m : x[1] = u} |-> m[k]]

\* C38: drop_table(t) touches table t only: for every other table u, the
\* schema in the catalog (in memory, and as a restarted engine reads it), the
\* cached pages, the page files, the max page id, the primary index and the
\* composite index are as before, so seq_scan(u) and index_scan(u, k) return
\* what they returned before.
C38_DropLeavesOtherTables ==
    [][last'.op = "drop_table" =>
          \A u \in AllTables \ {last'.table} :
              /\ At(schema_cache', u) = At(schema_cache, u)
              /\ At(SystemCatalog(page_files').schema_cache, u)
                     = At(SystemCatalog(page_files).schema_cache, u)
              /\ Of(page_cache', u) = Of(page_cache, u)
              /\ Of(page_files', u) = Of(page_files, u)
              /\ At(table_max_page_id', u) = At(table_max_page_id, u)
              /\ At(primary_indexes', u) = At(primary_indexes, u)
              /\ At(composite_indexes', u) = At(composite_indexes, u)
              /\ Of(cidx_files', u) = Of(cidx_files, u)
              /\ ValuesOf(seq_scan(Eng', u).rows) = ValuesOf(seq_scan(Eng, u).rows)
              /\ index_get_row_values(Eng', u, V1) = index_get_row_values(Eng, u, V1)]_vars

====
